---------------------------- MODULE Spec2Model ----------------------------
(***************************************************************************)
(* A model of GeographicLib's geodesic line (GeodesicLine.cpp), of the     *)
(* angle helpers and capability masks of Geodesic.hpp, and of the points,  *)
(* comparators and solvers of Intersect.hpp.                               *)
(*                                                                         *)
(* Math::real is modelled as a signed-magnitude fixed-point number         *)
(* [s, m]: s is the sign (+1 or -1, so that +0 and -0 are different        *)
(* values, as in IEEE arithmetic; s = 0 is NaN) and m is the magnitude in  *)
(* units of 1/Scale.  Every operation rounds its exact result to the       *)
(* nearest representable number, as the hardware does.                     *)
(***************************************************************************)
EXTENDS Integers, Sequences, FiniteSets, TLC

VARIABLES
  geod,   \* the Geodesic (ellipsoid) the line was built from
  ctor,   \* the arguments the GeodesicLine constructor was last called with,
          \* its cos(bet1) and the pairs it has handed to SinCosNorm
  line,   \* the fields of the GeodesicLine object
  call,   \* the last Position call: its arguments, outputs and return value
  ang,    \* an angle handed to AngNormalize, and what came back
  inv,    \* the progress and the results of Geodesic::Inverse
  xs,     \* the points, sets and results of the Intersect class
  thr     \* the Position call each thread sharing the line is in

vars == <<geod, ctor, line, call, ang, inv, xs, thr>>

---------------------------------------------------------------------------
(* Math::real *)

\* units per 1.0 of the fixed-point grid
Scale == 10000

NaN == [s |-> 0, m |-> 0]

IsNaN(x) == x.s = 0

\* the real with signed grid value n (a zero made this way is +0)
R(n) == IF n < 0 THEN [s |-> -1, m |-> -n] ELSE [s |-> 1, m |-> n]

\* the real equal to the integer k
I(k) == R(k * Scale)

\* the signed grid value of a real (+0 and -0 both give 0)
Val(x) == x.s * x.m

\* round(a * b / c) for naturals a, b and c > 0, without 32-bit overflow
MulDiv(a, b, c) ==
  a * (b \div c) + (a \div c) * (b % c)
    + (((a % c) * (b % c)) + (c \div 2)) \div c

FNeg(x) == [s |-> -x.s, m |-> x.m]

FAbs(x) == [s |-> x.s * x.s, m |-> x.m]

\* x + y: an exact zero sum is +0 unless both operands are negative
FAdd(x, y) ==
  IF IsNaN(x) \/ IsNaN(y) THEN NaN
  ELSE LET n == Val(x) + Val(y)
       IN  IF n # 0 THEN R(n)
           ELSE IF x.s = -1 /\ y.s = -1 THEN [s |-> -1, m |-> 0]
           ELSE [s |-> 1, m |-> 0]

FSub(x, y) == FAdd(x, FNeg(y))

FMul(x, y) ==
  IF IsNaN(x) \/ IsNaN(y) THEN NaN
  ELSE [s |-> x.s * y.s, m |-> MulDiv(x.m, y.m, Scale)]

\* x / y; the only zero divisor the program can form is hypot(0, 0), which
\* divides 0 by 0
FDiv(x, y) ==
  IF IsNaN(x) \/ IsNaN(y) \/ y.m = 0 THEN NaN
  ELSE [s |-> x.s * y.s, m |-> MulDiv(x.m, Scale, y.m)]

\* x / k for an integer literal k > 0
FDivInt(x, k) ==
  IF IsNaN(x) THEN NaN ELSE [s |-> x.s, m |-> (x.m + (k \div 2)) \div k]

\* k * x for an integer literal k >= 0
FMulInt(k, x) ==
  IF IsNaN(x) THEN NaN ELSE [s |-> x.s, m |-> k * x.m]

\* comparisons: false whenever an operand is NaN; +0 equals -0
FEq(x, y) == ~IsNaN(x) /\ ~IsNaN(y) /\ Val(x) = Val(y)

FLt(x, y) == ~IsNaN(x) /\ ~IsNaN(y) /\ Val(x) < Val(y)

FLe(x, y) == ~IsNaN(x) /\ ~IsNaN(y) /\ Val(x) <= Val(y)

\* std::floor
FFloor(x) ==
  IF IsNaN(x) THEN NaN
  ELSE LET q == Val(x) \div Scale
       IN  IF q = 0 /\ x.s = -1 /\ x.m = 0 THEN [s |-> -1, m |-> 0]
           ELSE I(q)

\* the largest r among lo, lo + step, ..., lo + 15 * step with r * r <= n
\* (46340 is the largest natural whose square is a 32-bit integer)
ISqrtStep(n, lo, step) ==
  lo + step * Cardinality({k \in 1..15 :
                             /\ lo + k * step <= 46340
                             /\ (lo + k * step) * (lo + k * step) <= n})

\* the natural nearest to the square root of n, one hexadecimal digit of
\* the root at a time
ISqrt(n) ==
  LET r == ISqrtStep(n, ISqrtStep(n, ISqrtStep(n, ISqrtStep(n, 0, 4096),
                                               256), 16), 1)
  IN  IF n - r * r > r THEN r + 1 ELSE r

\* std::sqrt of a non-negative real
FSqrt(x) ==
  IF IsNaN(x) \/ (x.s = -1 /\ x.m # 0) THEN NaN
  ELSE [s |-> x.s, m |-> ISqrt(x.m * Scale)]

\* Math::hypot
hypot(x, y) ==
  IF IsNaN(x) \/ IsNaN(y) THEN NaN
  ELSE [s |-> 1, m |-> ISqrt(x.m * x.m + y.m * y.m)]

sq(x) == FMul(x, x)

---------------------------------------------------------------------------
(* Trigonometry.  Angles handed to sin, cos and returned by atan2 are in   *)
(* radians; the tables are indexed in hundredths of a degree.              *)

\* pi on the grid
Pi == 31416

\* Scale * sin(d degrees), d = 0..90
SinTable ==
  <<0, 175, 349, 523, 698, 872, 1045, 1219, 1392, 1564,
    1736, 1908, 2079, 2250, 2419, 2588, 2756, 2924, 3090, 3256,
    3420, 3584, 3746, 3907, 4067, 4226, 4384, 4540, 4695, 4848,
    5000, 5150, 5299, 5446, 5592, 5736, 5878, 6018, 6157, 6293,
    6428, 6561, 6691, 6820, 6947, 7071, 7193, 7314, 7431, 7547,
    7660, 7771, 7880, 7986, 8090, 8192, 8290, 8387, 8480, 8572,
    8660, 8746, 8829, 8910, 8988, 9063, 9135, 9205, 9272, 9336,
    9397, 9455, 9511, 9563, 9613, 9659, 9703, 9744, 9781, 9816,
    9848, 9877, 9903, 9925, 9945, 9962, 9976, 9986, 9994, 9998,
    10000>>

\* x * Constants::degree(): degrees to radians
ToRad(x) ==
  IF IsNaN(x) THEN NaN ELSE [s |-> x.s, m |-> MulDiv(x.m, 1309, 75000)]

\* x / Constants::degree(): radians to degrees
ToDeg(x) ==
  IF IsNaN(x) THEN NaN ELSE [s |-> x.s, m |-> MulDiv(x.m, 75000, 1309)]

\* hundredths of a degree in a magnitude of radians
CentiDeg(m) == MulDiv(m, 750, 1309)

\* Scale * sin of r hundredths of a degree, 0 <= r <= 9000
SinQ(r) ==
  LET i == r \div 100
      f == r % 100
  IN  IF f = 0 THEN SinTable[i + 1]
      ELSE SinTable[i + 1]
             + ((SinTable[i + 2] - SinTable[i + 1]) * f + 50) \div 100

\* Scale * |sin| of r hundredths of a degree, 0 <= r < 36000, with its sign
SinCd(r) ==
  LET h == r % 18000
      q == IF h <= 9000 THEN SinQ(h) ELSE SinQ(18000 - h)
  IN  [s |-> IF r <= 18000 THEN 1 ELSE -1, m |-> q]

\* std::sin
FSin(x) ==
  IF IsNaN(x) THEN NaN
  ELSE LET v == SinCd(CentiDeg(x.m) % 36000)
       IN  [s |-> x.s * v.s, m |-> v.m]

\* std::cos
FCos(x) ==
  IF IsNaN(x) THEN NaN
  ELSE SinCd((CentiDeg(x.m) + 9000) % 36000)

\* ym * cos(i degrees) - xm * sin(i degrees), decreasing in i = 0..90
AtanF(ym, xm, i) == ym * SinTable[91 - i] - xm * SinTable[i + 1]

RECURSIVE AtanDeg(_, _, _, _)
\* the largest i in lo..hi with AtanF(ym, xm, i) >= 0
AtanDeg(ym, xm, lo, hi) ==
  IF lo = hi THEN lo
  ELSE LET mid == (lo + hi + 1) \div 2
       IN  IF AtanF(ym, xm, mid) >= 0 THEN AtanDeg(ym, xm, mid, hi)
           ELSE AtanDeg(ym, xm, lo, mid - 1)

\* atan(ym / xm) in hundredths of a degree, for magnitudes not both zero
AtanCd(ym, xm) ==
  LET i == AtanDeg(ym, xm, 0, 90)
  IN  IF i = 90 THEN 9000
      ELSE LET f0 == AtanF(ym, xm, i)
               f1 == AtanF(ym, xm, i + 1)
           IN  100 * i + MulDiv(f0, 100, f0 - f1)

\* std::atan2, with the IEEE results for signed zeros
atan2(y, x) ==
  IF IsNaN(x) \/ IsNaN(y) THEN NaN
  ELSE IF y.m = 0 THEN [s |-> y.s, m |-> IF x.s = 1 THEN 0 ELSE Pi]
  ELSE IF x.m = 0 THEN [s |-> y.s, m |-> Pi \div 2]
  ELSE LET t == AtanCd(y.m, x.m)
           cd == IF x.s = 1 THEN t ELSE 18000 - t
       IN  [s |-> y.s, m |-> MulDiv(cd, 1309, 750)]

---------------------------------------------------------------------------
(* Capability and output masks.  An unsigned mask is the set of its bit    *)
(* positions: & is intersection, | is union, a non-zero test is # {}.      *)

CAP_NONE == {}
CAP_C1 == {0}
CAP_C1p == {1}
CAP_C2 == {2}
CAP_C3 == {3}
CAP_C4 == {4}
CAP_ALL == 0..4
OUT_ALL == 7..14

NONE == {}
LATITUDE == {7} \cup CAP_NONE
LONGITUDE == {8} \cup CAP_C3
AZIMUTH == {9} \cup CAP_NONE
DISTANCE == {10} \cup CAP_C1
DISTANCE_IN_M == {11} \cup CAP_C1
DISTANCE_IN == {11} \cup CAP_C1 \cup CAP_C1p
REDUCEDLENGTH == {12} \cup CAP_C1 \cup CAP_C2
GEODESICSCALE == {13} \cup CAP_C1 \cup CAP_C2
AREA == {14} \cup CAP_C4
ALL == OUT_ALL \cup CAP_ALL

\* the public flags of Geodesic::mask
Flags ==
  {LATITUDE, LONGITUDE, AZIMUTH, DISTANCE, DISTANCE_IN, REDUCEDLENGTH,
   GEODESICSCALE, AREA}

---------------------------------------------------------------------------
(* Angle helpers of Geodesic.hpp *)

\* Place angle in [-180, 180).  Assumes x is in [-540, 540).
\* AngNormalize with the comparison at 180 made strict
AngNormalize_M(x) ==
  IF FLt(I(180), x) THEN FSub(x, I(360))
  ELSE IF FLt(x, I(-180)) THEN FAdd(x, I(360))
  ELSE x

AngNormalize(x) ==
  IF FLe(I(180), x) THEN FSub(x, I(360))
  ELSE IF FLt(x, I(-180)) THEN FAdd(x, I(360))
  ELSE x

\* a real stored without rounding
Working_M(bits, x) == x

\* a real stored in a volatile of bits significant binary digits: the
\* magnitude rounded to the nearest such number, ties to the even one
Working(bits, x) ==
  IF x.s \notin {-1, 1} THEN x
  ELSE LET u == CHOOSE w \in {2^k : k \in 0..30} :
                  /\ x.m \div w < 2^bits
                  /\ w = 1 \/ x.m \div (w \div 2) >= 2^bits
           q == x.m \div u
           r == x.m % u
       IN  [s |-> x.s,
            m |-> IF 2 * r > u \/ (2 * r = u /\ q % 2 = 1)
                  THEN (q + 1) * u ELSE q * u]

\* AngRound in an arithmetic of bits significant digits where 1/16 is z:
\* z - (z - y) for |x| < 1/16, with the sign of x put back
AngRoundAt(bits, z, x) ==
  LET y0 == FAbs(x)
      y == IF FLt(y0, z)
           THEN Working(bits, FSub(z, Working(bits, FSub(z, y0))))
           ELSE y0
  IN  IF FLt(x, I(0)) THEN FNeg(y) ELSE y

\* AngRound on the grid, where every magnitude fits the 30 digits
AngRound(x) == AngRoundAt(30, R(625), x)

\* the pair (sinx, cosx) divided by its length
SinCosNorm(sinx, cosx) ==
  LET r == hypot(sinx, cosx)
  IN  <<FDiv(sinx, r), FDiv(cosx, r)>>

\* the pole guard: the square root of the smallest positive number
eps2 == R(100)

\* an iteration limit one short of maxit
maxit_M == 50 - 1

\* the iteration limit of the inverse problem
maxit == 50

\* order of the series expansions
GEOD_ORD == 3

nC1 == GEOD_ORD
nC1p == GEOD_ORD
nC2 == GEOD_ORD
nC3 == GEOD_ORD
nC4 == GEOD_ORD

---------------------------------------------------------------------------
(* The ellipsoid and the series in eps.  Their code (Geodesic.cpp) is      *)
(* declared in Geodesic.hpp only; they follow the data model and the       *)
(* series of the specification, at the order GEOD_ORD.                     *)

\* the one element of a singleton set: The({F(x) : x \in {e}}) is F(e),
\* with e evaluated once, before F
The(S) == CHOOSE x \in S : TRUE

\* atanh(e)/e (oblate) or atan(e)/e (prolate) as a series in e2
AtanhRatio(e2) ==
  The({FAdd(I(1), FMul(e2, t2)) : t2 \in
      {FAdd(FDivInt(I(1), 3), FMul(e2, t3)) : t3 \in
      {FAdd(FDivInt(I(1), 5), FMul(e2, t4)) : t4 \in
      {FAdd(FDivInt(I(1), 7), FMul(e2, t5)) : t5 \in
      {FAdd(FDivInt(I(1), 9), FDivInt(e2, 11))}}}}})

\* the members that follow from a, r and f
GeodesicMembers(a, r, f) ==
  [_a |-> a, _r |-> r, _f |-> f, _f1 |-> FSub(I(1), f),
   _e2 |-> FMul(f, FSub(I(2), f)),
   _n |-> FDiv(f, FSub(I(2), f)),
   _b |-> FMul(a, FSub(I(1), f))]

\* the members that follow from the ones above
GeodesicDerived(g) ==
  [_ep2 |-> FDiv(g._e2, sq(g._f1)),
   _c2 |-> The({FDivInt(FAdd(sq(g._a), FMul(sq(g._b), t)), 2) :
                  t \in {AtanhRatio(g._e2)}})] @@ g

\* Geodesic::Geodesic(a, r): r = 0 is a sphere, r < 0 a prolate ellipsoid
Geodesic(a, r) ==
  The({GeodesicDerived(g) : g \in
      {GeodesicMembers(a, r, f) : f \in
      {IF Val(r) # 0 THEN FDiv(I(1), r) ELSE I(0)}}})

RECURSIVE Clenshaw(_, _, _, _, _)
\* y1 = ar * y0 - y1 + c[k], from the high index k down to 1
Clenshaw(ar, c, k, y0, y1) ==
  IF k = 0 THEN <<y0, y1>>
  ELSE The({Clenshaw(ar, c, k - 1, y, y0) :
              y \in {FAdd(FSub(FMul(ar, y0), y1), c[k])}})

\* the sum from the pair y the summation has left
SinCosSum(sinp, sinx, cosx, y) ==
  IF sinp THEN FMul(FMul(FMulInt(2, sinx), cosx), y[1])
  ELSE FMul(cosx, FSub(y[1], y[2]))

\* sum of c[j] sin(2 j x) (sinp) or of c[j] cos((2 j - 1) x), j = 1..n
SinCosSeries(sinp, sinx, cosx, c, n) ==
  The({SinCosSum(sinp, sinx, cosx, y) : y \in
      {Clenshaw(ar, c, n, I(0), I(0)) : ar \in
      {FMulInt(2, FMul(FSub(cosx, sinx), FAdd(cosx, sinx)))}}})

\* A1 - 1
A1m1f(eps) ==
  LET t == FDivInt(sq(eps), 4)
  IN  FDiv(FAdd(t, eps), FSub(I(1), eps))

\* the coefficients C1[1..nC1]
C1f(eps) ==
  LET e2 == sq(eps)
      e3 == FMul(e2, eps)
  IN  <<FDivInt(FMul(eps, FSub(FMulInt(3, e2), I(8))), 16),
        FNeg(FDivInt(e2, 16)),
        FNeg(FDivInt(e3, 48))>>

\* the coefficients C1p[1..nC1p] of the series reverting C1
C1pf(eps) ==
  LET e2 == sq(eps)
      e3 == FMul(e2, eps)
  IN  <<FDivInt(FMul(eps, FSub(I(16), FMulInt(9, e2))), 32),
        FDivInt(FMulInt(5, e2), 16),
        FDivInt(FMulInt(29, e3), 96)>>

\* A2 - 1
A2m1f(eps) ==
  LET t == FDivInt(sq(eps), 4)
  IN  FSub(FMul(t, FSub(I(1), eps)), eps)

\* the coefficients C2[1..nC2]
C2f(eps) ==
  LET e2 == sq(eps)
      e3 == FMul(e2, eps)
  IN  <<FDivInt(FMul(eps, FAdd(e2, I(8))), 16),
        FDivInt(FMulInt(3, e2), 16),
        FDivInt(FMulInt(5, e3), 48)>>

\* A3, a polynomial in eps with coefficients in n
A3f(g, eps) ==
  LET a1 == FDivInt(FSub(g._n, I(1)), 2)
      a2 == FNeg(FDivInt(I(1), 4))
  IN  FAdd(I(1), FMul(eps, FAdd(a1, FMul(eps, a2))))

\* the coefficients C3[1..nC3-1]
C3f(g, eps) ==
  LET c0 == FDivInt(FSub(I(1), g._n), 4)
      c1 == FDivInt(I(1), 8)
      c2 == FDivInt(I(1), 16)
  IN  <<FMul(eps, FAdd(c0, FMul(eps, c1))), FMul(sq(eps), c2)>>

\* the coefficients C4[0..nC4-1], polynomials in k2 with coefficients in ep2
C4f(g, k2) ==
  LET ep2 == g._ep2
      x0 == FDivInt(FAdd(FMul(ep2, FSub(FMulInt(4, ep2), I(7))), I(70)), 105)
      x1 == FDivInt(FSub(FMulInt(4, ep2), I(7)), 140)
      x2 == FDivInt(I(1), 42)
      x3 == FDivInt(FSub(I(7), FMulInt(4, ep2)), 1260)
      x4 == FNeg(FDivInt(I(1), 252))
      x5 == FDivInt(I(1), 2100)
  IN  <<FAdd(x0, FMul(k2, FAdd(x1, FMul(k2, x2)))),
        FMul(k2, FAdd(x3, FMul(k2, x4))),
        FMul(sq(k2), x5)>>

---------------------------------------------------------------------------
(* GeodesicLine *)

\* the content of a field no constructor has written
Uninit == [s |-> 2, m |-> 0]

UninitArray == <<Uninit, Uninit, Uninit>>

\* the default-constructed line: _caps = 0 and nothing else set
DefaultLine ==
  [_a |-> Uninit, _r |-> Uninit, _b |-> Uninit, _c2 |-> Uninit,
   _f1 |-> Uninit, _caps |-> {},
   _lat1 |-> Uninit, _lon1 |-> Uninit, _azi1 |-> Uninit,
   _salp1 |-> Uninit, _calp1 |-> Uninit,
   _salp0 |-> Uninit, _calp0 |-> Uninit,
   _ssig1 |-> Uninit, _csig1 |-> Uninit,
   _somg1 |-> Uninit, _comg1 |-> Uninit, _k2 |-> Uninit,
   _A1m1 |-> Uninit, _C1a |-> UninitArray, _B11 |-> Uninit,
   _stau1 |-> Uninit, _ctau1 |-> Uninit,
   _C1pa |-> UninitArray,
   _A2m1 |-> Uninit, _C2a |-> UninitArray, _B21 |-> Uninit,
   _C3a |-> UninitArray, _A3c |-> Uninit, _B31 |-> Uninit,
   _C4a |-> UninitArray, _A4 |-> Uninit, _B41 |-> Uninit]

\* GeodesicLine::Init()
LineInit(L) == L._caps # {}

\* the capabilities with latitude and azimuth dropped
LineCaps_M(caps) == caps

\* the member initialiser of _caps: always allow latitude and azimuth
LineCaps(caps) == caps \cup LATITUDE \cup AZIMUTH

\* the direction at point 1 from the library sine and cosine alone
LineAzimuth_M(lat1, lon1, azi1, _caps) ==
  [_caps |-> _caps, _lat1 |-> lat1, _lon1 |-> lon1, _azi1 |-> azi1,
   _salp1 |-> FSin(ToRad(azi1)), _calp1 |-> FCos(ToRad(azi1))]

\* lines 51-63: the angles, rounded, and the direction at point 1
LineAzimuth(lat1, lon1, azi1, _caps) ==
  [_caps |-> _caps, _lat1 |-> lat1, _lon1 |-> lon1, _azi1 |-> azi1,
   _salp1 |-> IF FEq(azi1, I(-180)) THEN I(0) ELSE FSin(ToRad(azi1)),
   _calp1 |-> IF FEq(FAbs(azi1), I(90)) THEN I(0) ELSE FCos(ToRad(azi1))]

\* the reduced latitude without the guard at the poles
LineBet1_M(g, v) ==
  LET phi == ToRad(v._lat1)
      sbet1 == FMul(g._f1, FSin(phi))
      cbet1 == FCos(phi)
      bet1 == SinCosNorm(sbet1, cbet1)
  IN  [sbet1 |-> bet1[1], cbet1 |-> bet1[2], norm1 |-> <<sbet1, cbet1>>]
        @@ v

\* lines 64-69: the reduced latitude, with cbet1 = eps2 at a pole
LineBet1(g, v) ==
  LET phi == ToRad(v._lat1)
      sbet1 == FMul(g._f1, FSin(phi))
      cbet1 == IF FEq(FAbs(v._lat1), I(90)) THEN eps2 ELSE FCos(phi)
      bet1 == SinCosNorm(sbet1, cbet1)
  IN  [sbet1 |-> bet1[1], cbet1 |-> bet1[2], norm1 |-> <<sbet1, cbet1>>]
        @@ v

\* alp0, and cos(sig1) = cbet1 * calp1 on the equator as elsewhere
LineAlp0_M(v) ==
  [_salp0 |-> FMul(v._salp1, v.cbet1),
   _calp0 |-> hypot(v._calp1, FMul(v._salp1, v.sbet1)),
   csig1 |-> FMul(v.cbet1, v._calp1)] @@ v

\* lines 71-86: alp0 and the unnormalised cos(sig1) = cos(omg1)
LineAlp0(v) ==
  [_salp0 |-> FMul(v._salp1, v.cbet1),
   _calp0 |-> hypot(v._calp1, FMul(v._salp1, v.sbet1)),
   csig1 |-> IF ~FEq(v.sbet1, I(0)) \/ ~FEq(v._calp1, I(0))
             THEN FMul(v.cbet1, v._calp1) ELSE I(1)] @@ v

\* lines 84-91: sig1 and omg1 normalised, k2
LineSig1(g, v) ==
  LET sig1 == SinCosNorm(v.sbet1, v.csig1)
      omg1 == SinCosNorm(FMul(v._salp0, v.sbet1), v.csig1)
  IN  [_ssig1 |-> sig1[1], _csig1 |-> sig1[2],
       _somg1 |-> omg1[1], _comg1 |-> omg1[2],
       norm2 |-> <<v.sbet1, v.csig1>>,
       norm3 |-> <<FMul(v._salp0, v.sbet1), v.csig1>>,
       _k2 |-> FMul(sq(v._calp0), g._ep2)] @@ v

\* line 91: eps = k2 / (2 * (1 + sqrt(1 + k2)) + k2)
LineEps(v) ==
  [eps |-> The({FDiv(v._k2, FAdd(FMulInt(2, FAdd(I(1), w)), v._k2)) :
                  w \in {FSqrt(FAdd(I(1), v._k2))}})] @@ v

\* lines 93-96, 105-106: A1, C1 and B11, and C1p
LineC1(v) ==
  LET hasC1 == v._caps \cap CAP_C1 # {}
      hasC1p == v._caps \cap CAP_C1p # {}
      C1a == C1f(v.eps)
  IN  [hasC1 |-> hasC1,
       _A1m1 |-> IF hasC1 THEN A1m1f(v.eps) ELSE Uninit,
       _C1a |-> IF hasC1 THEN C1a ELSE UninitArray,
       _B11 |-> IF hasC1
                THEN SinCosSeries(TRUE, v._ssig1, v._csig1, C1a, nC1)
                ELSE Uninit,
       _C1pa |-> IF hasC1p THEN C1pf(v.eps) ELSE UninitArray] @@ v

\* lines 97-103: tau1 = sig1 + B11
LineTau1(v, s, c) ==
  [_stau1 |-> IF v.hasC1
              THEN FAdd(FMul(v._ssig1, c), FMul(v._csig1, s)) ELSE Uninit,
   _ctau1 |-> IF v.hasC1
              THEN FSub(FMul(v._csig1, c), FMul(v._ssig1, s)) ELSE Uninit]
    @@ v

\* lines 108-112: A2, C2 and B21
LineC2(v) ==
  LET hasC2 == v._caps \cap CAP_C2 # {}
      C2a == C2f(v.eps)
  IN  [_A2m1 |-> IF hasC2 THEN A2m1f(v.eps) ELSE Uninit,
       _C2a |-> IF hasC2 THEN C2a ELSE UninitArray,
       _B21 |-> IF hasC2
                THEN SinCosSeries(TRUE, v._ssig1, v._csig1, C2a, nC2)
                ELSE Uninit]

\* lines 114-118: C3, A3c and B31
LineC3(g, v) ==
  LET hasC3 == v._caps \cap CAP_C3 # {}
      C3a == C3f(g, v.eps)
  IN  [_C3a |-> IF hasC3 THEN C3a ELSE UninitArray,
       _A3c |-> IF hasC3
                THEN FMul(FMul(FNeg(g._f), v._salp0), A3f(g, v.eps))
                ELSE Uninit,
       _B31 |-> IF hasC3
                THEN SinCosSeries(TRUE, v._ssig1, v._csig1, C3a, nC3 - 1)
                ELSE Uninit]

\* lines 120-125: C4, A4 and B41
LineC4(g, v) ==
  LET hasC4 == v._caps \cap CAP_C4 # {}
      C4a == C4f(g, v._k2)
  IN  [_C4a |-> IF hasC4 THEN C4a ELSE UninitArray,
       _A4 |-> IF hasC4
               THEN FMul(FMul(FMul(sq(g._a), v._calp0), v._salp0), g._e2)
               ELSE Uninit,
       _B41 |-> IF hasC4
                THEN SinCosSeries(FALSE, v._ssig1, v._csig1, C4a, nC4)
                ELSE Uninit]

\* the members of the object, from the constructor's locals
LineMembers(g, v) ==
  [_a |-> g._a, _r |-> g._r, _b |-> g._b, _c2 |-> g._c2, _f1 |-> g._f1,
   _caps |-> v._caps, _lat1 |-> v._lat1, _lon1 |-> v._lon1,
   _azi1 |-> v._azi1, _salp1 |-> v._salp1, _calp1 |-> v._calp1,
   _salp0 |-> v._salp0, _calp0 |-> v._calp0,
   _ssig1 |-> v._ssig1, _csig1 |-> v._csig1,
   _somg1 |-> v._somg1, _comg1 |-> v._comg1, _k2 |-> v._k2,
   _A1m1 |-> v._A1m1, _C1a |-> v._C1a, _B11 |-> v._B11,
   _stau1 |-> v._stau1, _ctau1 |-> v._ctau1, _C1pa |-> v._C1pa]
    @@ LineC2(v) @@ LineC3(g, v) @@ LineC4(g, v)

\* the constructor's locals with the C1 group
LineWithC1(v) ==
  LineTau1(v, IF v.hasC1 THEN FSin(v._B11) ELSE Uninit,
              IF v.hasC1 THEN FCos(v._B11) ELSE Uninit)

\* the statements of the constructor in their order, each on the locals
\* the one before has left
LineLocals(g, lat1, lon1_in, azi1_in, caps) ==
  The({LineWithC1(v) : v \in
      {LineC1(v) : v \in
      {LineEps(v) : v \in
      {LineSig1(g, v) : v \in
      {LineAlp0(v) : v \in
      {LineBet1(g, v) : v \in
      {LineAzimuth(lat1, AngNormalize(lon1_in),
                   AngRound(AngNormalize(azi1_in)), LineCaps(caps))}}}}}}})

\* GeodesicLine::GeodesicLine(g, lat1, lon1, azi1, caps)
GeodesicLine(g, lat1, lon1, azi1, caps) ==
  The({LineMembers(g, v) : v \in {LineLocals(g, lat1, lon1, azi1, caps)}})

\* the return value without the conversion to degrees
PositionReturn_M(arcmode, a12, sig12) == sig12

\* return arcmode ? a12 : sig12 / Constants::degree()
PositionReturn(arcmode, a12, sig12) ==
  IF arcmode THEN a12 ELSE ToDeg(sig12)

\* the guard without the test of DISTANCE_IN
PositionAllowed_M(L, arcmode) == LineInit(L)

\* Init() && (arcmode || (_caps & DISTANCE_IN & OUT_ALL))
PositionAllowed(L, arcmode) ==
  LineInit(L) /\ (arcmode \/ (L._caps \cap DISTANCE_IN \cap OUT_ALL) # {})

\* the requested outputs, whether the line is capable of them or not
EffectiveMask_M(L, outmask) == outmask \cap OUT_ALL

\* outmask &= _caps & OUT_ALL
EffectiveMask(L, outmask) == outmask \cap (L._caps \cap OUT_ALL)

\* azi2 = 0 - atan2(-salp2, calp2) / Constants::degree()
Azi2(salp2, calp2) == FSub(I(0), ToDeg(atan2(FNeg(salp2), calp2)))

\* the longitude difference without the reduction mod 360
LonReduce_M(lon12) == lon12

\* lon12 = lon12 - 360 * floor(lon12/360 + real(0.5))
LonReduce(lon12) ==
  FSub(lon12, FMulInt(360, FFloor(FAdd(FDivInt(lon12, 360), R(5000)))))

\* lines 142-148: a12 is an arc length
PosArc(a12) ==
  LET s12a == FSub(FAbs(a12), FMulInt(180, FFloor(FDivInt(FAbs(a12), 180))))
  IN  [sig12 |-> ToRad(a12),
       ssig12 |-> IF FEq(s12a, I(0)) THEN I(0) ELSE FSin(ToRad(a12)),
       csig12 |-> IF FEq(s12a, I(90)) THEN I(0) ELSE FCos(ToRad(a12)),
       B12 |-> I(0)]

\* lines 156-158: B12 in distance mode, s and c the sine and cosine of
\* tau12; tau2 = tau1 + tau12
PosB12(L, s, c) ==
  The({FNeg(SinCosSeries(TRUE, stau2, ctau2, L._C1pa, nC1p)) :
         stau2 \in {FAdd(FMul(L._stau1, c), FMul(L._ctau1, s))},
         ctau2 \in {FSub(FMul(L._ctau1, c), FMul(L._stau1, s))}})

\* lines 160-161: the sine and cosine of sig12
PosSig12(sig12, B12) ==
  [sig12 |-> sig12, ssig12 |-> FSin(sig12), csig12 |-> FCos(sig12),
   B12 |-> B12]

\* lines 152-161: a12 is a distance, tau12 = a12 / (_b * (1 + _A1m1)) and
\* sig12 = tau12 - (B12 - _B11)
PosDist(L, tau12) ==
  The({PosSig12(FSub(tau12, FSub(B12, L._B11)), B12) :
         B12 \in {PosB12(L, s, c) : s \in {FSin(tau12)},
                                    c \in {FCos(tau12)}}})

\* lines 166-167: sig2 = sig1 + sig12
PosSig2(L, v) ==
  [ssig2 |-> FAdd(FMul(L._ssig1, v.csig12), FMul(L._csig1, v.ssig12)),
   csig2 |-> FSub(FMul(L._csig1, v.csig12), FMul(L._ssig1, v.ssig12))]
    @@ v

\* lines 168-172: B12 in arc mode, and AB1
PosAB1(L, arcmode, outmask, v) ==
  LET need == outmask \cap (DISTANCE \cup REDUCEDLENGTH \cup GEODESICSCALE)
                # {}
      B12 == IF need /\ arcmode
             THEN SinCosSeries(TRUE, v.ssig2, v.csig2, L._C1a, nC1)
             ELSE v.B12
  IN  [B12 |-> B12,
       AB1 |-> IF need
               THEN FMul(FAdd(I(1), L._A1m1), FSub(B12, L._B11))
               ELSE I(0),
       reads |-> v.reads
                   \cup (IF need /\ arcmode THEN {"_C1a"} ELSE {})
                   \cup (IF need THEN {"_A1m1", "_B11"} ELSE {})] @@ v

\* lines 173-177: bet2, before the degeneracy is broken
PosBet2(L, v) ==
  [sbet2 |-> FMul(L._calp0, v.ssig2),
   cbet2 |-> hypot(L._salp0, FMul(L._calp0, v.csig2))] @@ v

\* the degeneracy found and left as it is
PosDegenerate_M(v) == [degenerate |-> FEq(v.cbet2, I(0))] @@ v

\* lines 178-180: cbet2 = csig2 = eps2 when cbet2 is 0
PosDegenerate(v) ==
  IF FEq(v.cbet2, I(0))
  THEN [cbet2 |-> eps2, csig2 |-> eps2, degenerate |-> TRUE] @@ v
  ELSE [degenerate |-> FALSE] @@ v

\* lines 181-184: omg2 and alp2
PosAlp2(L, v) ==
  [somg2 |-> FMul(L._salp0, v.ssig2), comg2 |-> v.csig2,
   salp2 |-> L._salp0, calp2 |-> FMul(L._calp0, v.csig2)] @@ v

\* lines 185-187: omg12 = omg2 - omg1
PosOmg12(L, v) ==
  [omg12 |-> atan2(FSub(FMul(v.somg2, L._comg1), FMul(v.comg2, L._somg1)),
                   FAdd(FMul(v.comg2, L._comg1), FMul(v.somg2, L._somg1)))]
    @@ v

\* lines 189-190: the distance
PosS12(L, arcmode, a12, outmask, v) ==
  [s12 |-> IF outmask \cap DISTANCE = {} THEN Uninit
           ELSE IF arcmode
           THEN FMul(L._b,
                  FAdd(FMul(FAdd(I(1), L._A1m1), v.sig12), v.AB1))
           ELSE a12,
   reads |-> v.reads \cup (IF outmask \cap DISTANCE # {} /\ arcmode
                           THEN {"_A1m1"} ELSE {})] @@ v

\* lines 193-196: lam12, and lon12 in degrees
PosLam12(L, v) ==
  The({ToDeg(FAdd(v.omg12, FMul(L._A3c, d))) : d \in
      {FAdd(v.sig12, FSub(B32, L._B31)) : B32 \in
      {SinCosSeries(TRUE, v.ssig2, v.csig2, L._C3a, nC3 - 1)}}})

\* line 200: lon2 from the reduced lon12
PosLon2(L, lon12, v) ==
  [lon12 |-> lon12, lonsum |-> FAdd(L._lon1, lon12),
   lon2 |-> AngNormalize(FAdd(L._lon1, lon12)),
   reads |-> v.reads \cup {"_A3c", "_C3a", "_B31"}] @@ v

\* lines 192-201: the longitude
PosLon(L, outmask, v) ==
  IF outmask \cap LONGITUDE = {}
  THEN [lon12 |-> NaN, lonsum |-> NaN, lon2 |-> Uninit] @@ v
  ELSE The({PosLon2(L, LonReduce(lon12), v) : lon12 \in {PosLam12(L, v)}})

\* lines 203-208: the latitude and the azimuth
PosLatAzi(L, outmask, v) ==
  [lat2 |-> IF outmask \cap LATITUDE = {} THEN Uninit
            ELSE ToDeg(atan2(v.sbet2, FMul(L._f1, v.cbet2))),
   azi2 |-> IF outmask \cap AZIMUTH = {} THEN Uninit
            ELSE Azi2(v.salp2, v.calp2)] @@ v

\* lines 211-215: ssig1sq, ssig2sq, w1, w2
PosW(L, v) ==
  [ssig1sq |-> sq(L._ssig1), ssig2sq |-> sq(v.ssig2),
   w1 |-> FSqrt(FAdd(I(1), FMul(L._k2, sq(L._ssig1)))),
   w2 |-> FSqrt(FAdd(I(1), FMul(L._k2, sq(v.ssig2))))] @@ v

\* lines 216-218: B22, AB2 and J12
PosJ12(L, v) ==
  [J12 |-> The({FAdd(FMul(FSub(L._A1m1, L._A2m1), v.sig12),
                     FSub(v.AB1, AB2)) :
                  AB2 \in {FMul(FAdd(I(1), L._A2m1), FSub(B22, L._B21)) :
                  B22 \in {SinCosSeries(TRUE, v.ssig2, v.csig2,
                                        L._C2a, nC2)}}}),
   dsq |-> FMul(L._k2, FSub(v.ssig2sq, v.ssig1sq))] @@ v

\* lines 219-229: the reduced length and the geodesic scales
PosM(L, outmask, v) ==
  [m12 |-> IF outmask \cap REDUCEDLENGTH = {} THEN Uninit
           ELSE The({FMul(L._b, FSub(d, FMul(FMul(L._csig1, v.csig2), v.J12))) :
                       d \in {FSub(FMul(v.w2, FMul(L._csig1, v.ssig2)),
                                   FMul(v.w1, FMul(L._ssig1, v.csig2)))}}),
   M12 |-> IF outmask \cap GEODESICSCALE = {} THEN Uninit
           ELSE The({FAdd(v.csig12, FDiv(FMul(d, L._ssig1), v.w1)) :
                       d \in {FSub(FDiv(FMul(v.dsq, v.ssig2),
                                        FAdd(v.w1, v.w2)),
                                   FMul(v.csig2, v.J12))}}),
   M21 |-> IF outmask \cap GEODESICSCALE = {} THEN Uninit
           ELSE The({FSub(v.csig12, FDiv(FMul(d, v.ssig2), v.w2)) :
                       d \in {FSub(FDiv(FMul(v.dsq, L._ssig1),
                                        FAdd(v.w1, v.w2)),
                                   FMul(L._csig1, v.J12))}}),
   reads |-> v.reads \cup {"_C2a", "_A2m1", "_B21", "_A1m1"}] @@ v

\* lines 210-230: the block of REDUCEDLENGTH and GEODESICSCALE
PosScale(L, outmask, v) ==
  IF outmask \cap (REDUCEDLENGTH \cup GEODESICSCALE) = {}
  THEN [m12 |-> Uninit, M12 |-> Uninit, M21 |-> Uninit] @@ v
  ELSE The({PosM(L, outmask, w) : w \in
           {PosJ12(L, w) : w \in {PosW(L, v)}}})

\* lines 236-237: alp12 = alp2 - alp1
PosAlp12(L, v) ==
  [salp12 |-> FSub(FMul(v.salp2, L._calp1), FMul(v.calp2, L._salp1)),
   calp12 |-> FAdd(FMul(v.calp2, L._calp1), FMul(v.salp2, L._salp1))] @@ v

\* the half turn found and salp12 left with the sign of its zero
PosHalfTurn_M(L, v) ==
  [halfturn |-> FEq(v.salp12, I(0)) /\ FLt(v.calp12, I(0)),
   zero12 |-> v.salp12] @@ v

\* lines 241-244: alp12 = -180 when alp1 = +/-180 and alp2 = 0; zero12 is
\* the salp12 that is replaced
PosHalfTurn(L, v) ==
  IF FEq(v.salp12, I(0)) /\ FLt(v.calp12, I(0))
  THEN [salp12 |-> FMul(eps2, L._calp1), calp12 |-> I(-1),
        halfturn |-> TRUE, zero12 |-> v.salp12] @@ v
  ELSE [halfturn |-> FALSE, zero12 |-> v.salp12] @@ v

\* lines 234, 245: B42 and the area; alp12 is atan2(salp12, calp12)
PosS12Area(L, v) ==
  The({[S12 |-> FAdd(FMul(L._c2, alp12), FMul(L._A4, FSub(B42, L._B41))),
        alp12 |-> alp12,
        reads |-> v.reads \cup {"_C4a", "_A4", "_B41"}] @@ v :
         alp12 \in {atan2(v.salp12, v.calp12)},
         B42 \in {SinCosSeries(FALSE, v.ssig2, v.csig2, L._C4a, nC4)}})

\* lines 232-246: the block of AREA
PosArea(L, outmask, v) ==
  IF outmask \cap AREA = {}
  THEN [S12 |-> Uninit, alp12 |-> Uninit, halfturn |-> FALSE,
        zero12 |-> Uninit] @@ v
  ELSE The({PosS12Area(L, w) : w \in
           {PosHalfTurn(L, w) : w \in {PosAlp12(L, v)}}})

\* lines 141-161: sig12, its sine and cosine, and B12 in distance mode
PosSig12In(L, arcmode, a12) ==
  IF arcmode THEN [reads |-> {}] @@ PosArc(a12)
  ELSE [reads |-> {"_A1m1", "_stau1", "_ctau1", "_C1pa", "_B11"}]
         @@ The({PosDist(L, tau12) : tau12 \in
                {FDiv(a12, FMul(L._b, FAdd(I(1), L._A1m1)))}})

\* the locals of Position at its end, from the locals v0 that hold sig12:
\* the statements in their order, each on the locals the one before has left
PosOutputs(L, arcmode, a12, outmask, v0) ==
  The({PosArea(L, outmask, v) : v \in
      {PosScale(L, outmask, v) : v \in
      {PosLatAzi(L, outmask, v) : v \in
      {PosLon(L, outmask, v) : v \in
      {PosS12(L, arcmode, a12, outmask, v) : v \in
      {PosOmg12(L, v) : v \in
      {PosAlp2(L, v) : v \in
      {PosDegenerate(v) : v \in
      {PosBet2(L, v) : v \in
      {PosAB1(L, arcmode, outmask, v) : v \in
      {PosSig2(L, v) : v \in {v0}}}}}}}}}}}})

PosLocals(L, arcmode, a12, outmask) ==
  The({PosOutputs(L, arcmode, a12, outmask, v0) : v0 \in
      {PosSig12In(L, arcmode, a12)}})

\* the output arguments and the return value, from the locals v; reads
\* holds the names of the coefficients, amplitudes and remainders of point
\* 1 that the statements have read
PosResult(arcmode, a12, outmask, pre, v) ==
  LET wr(flag) == outmask \cap flag # {}
  IN  [ret |-> PositionReturn(arcmode, a12, v.sig12),
       out |-> [lat2 |-> IF wr(LATITUDE) THEN v.lat2 ELSE pre.lat2,
                lon2 |-> IF wr(LONGITUDE) THEN v.lon2 ELSE pre.lon2,
                azi2 |-> IF wr(AZIMUTH) THEN v.azi2 ELSE pre.azi2,
                s12 |-> IF wr(DISTANCE) THEN v.s12 ELSE pre.s12,
                m12 |-> IF wr(REDUCEDLENGTH) THEN v.m12 ELSE pre.m12,
                M12 |-> IF wr(GEODESICSCALE) THEN v.M12 ELSE pre.M12,
                M21 |-> IF wr(GEODESICSCALE) THEN v.M21 ELSE pre.M21,
                S12 |-> IF wr(AREA) THEN v.S12 ELSE pre.S12],
       written |-> (IF wr(LATITUDE) THEN {"lat2"} ELSE {})
                   \cup (IF wr(LONGITUDE) THEN {"lon2"} ELSE {})
                   \cup (IF wr(AZIMUTH) THEN {"azi2"} ELSE {})
                   \cup (IF wr(DISTANCE) THEN {"s12"} ELSE {})
                   \cup (IF wr(REDUCEDLENGTH) THEN {"m12"} ELSE {})
                   \cup (IF wr(GEODESICSCALE) THEN {"M12", "M21"} ELSE {})
                   \cup (IF wr(AREA) THEN {"S12"} ELSE {}),
       outmask |-> outmask,
       sig12 |-> v.sig12, lon12 |-> v.lon12, lonsum |-> v.lonsum,
       salp2 |-> v.salp2, calp2 |-> v.calp2,
       sbet2 |-> v.sbet2, cbet2 |-> v.cbet2,
       degenerate |-> v.degenerate, halfturn |-> v.halfturn,
       zero12 |-> v.zero12, alp12 |-> v.alp12, reads |-> v.reads]

\* GeodesicLine::Position(arcmode, a12, outmask, lat2, ..., S12): the
\* return value ret, the output arguments out (pre holds their values
\* before the call), the set of arguments assigned, and the locals
PositionImpl(L, arcmode, a12, outmask_in, pre) ==
  IF ~PositionAllowed(L, arcmode)
  THEN [ret |-> NaN, out |-> pre, written |-> {},
        outmask |-> EffectiveMask(L, outmask_in),
        sig12 |-> NaN, lon12 |-> NaN, lonsum |-> NaN,
        salp2 |-> NaN, calp2 |-> NaN, sbet2 |-> NaN, cbet2 |-> NaN,
        degenerate |-> FALSE, halfturn |-> FALSE, zero12 |-> NaN,
        alp12 |-> NaN, reads |-> {}]
  ELSE The({PosResult(arcmode, a12, EffectiveMask(L, outmask_in), pre, v) :
              v \in {PosLocals(L, arcmode, a12,
                                EffectiveMask(L, outmask_in))}})

---------------------------------------------------------------------------
(* The state machine: an ellipsoid is chosen, a line is constructed on it, *)
(* and Position is called on the line (or on the default-constructed       *)
(* line) with fresh output arguments each time.                            *)

\* the largest number of whole revolutions added to a displacement
MaxRev == 2

\* the largest number of flags or-ed into a capability or output mask
MaxFlags == 2

\* the ellipsoids <<a, r>>: a sphere, an oblate and a prolate ellipsoid
Ellipsoids == {<<I(1), I(0)>>, <<I(1), I(4)>>, <<I(2), I(-5)>>}

Lats == {I(-90), I(-30), I(0), I(45), I(90)}

Lons == {I(-540), I(-180), I(0), R(5399999), I(900)}

Azis == {I(-180), I(-90), I(0), R(100), I(45), I(90), I(135), I(180)}

\* the unions of at most MaxFlags public flags, and ALL
Masks ==
  {UNION fs : fs \in {x \in SUBSET Flags : Cardinality(x) <= MaxFlags}}
    \cup {ALL}

\* arc lengths in degrees
Arcs ==
  {FAdd(b, I(360 * k)) : b \in {I(0), I(90), I(180), I(-45), R(1799900)},
                         k \in 0..MaxRev}

\* distances in units of the equatorial radius
Dists ==
  {FAdd(b, R(62832 * k)) : b \in {I(0), R(15708), R(31416), I(-1), R(43210)},
                           k \in 0..MaxRev}

\* the output arguments before a call
PreOut ==
  [lat2 |-> I(901), lon2 |-> I(902), azi2 |-> I(903), s12 |-> I(904),
   m12 |-> I(905), M12 |-> I(906), M21 |-> I(907), S12 |-> I(908)]

NoCall == [done |-> FALSE]

NoCtor == [done |-> FALSE]

NoAng == [pc |-> "idle"]

NoInv == [pc |-> "idle"]

NoX == [pc |-> "idle"]

\* the threads that share one line
Threads == {1, 2}

NoThreads == [t \in Threads |-> [pc |-> "idle"]]

InitIn(E) ==
  /\ geod \in {Geodesic(e[1], e[2]) : e \in E}
  /\ ctor = NoCtor
  /\ line = DefaultLine
  /\ call = NoCall
  /\ ang = NoAng
  /\ inv = NoInv
  /\ xs = NoX
  /\ thr = NoThreads

\* GeodesicLine line(g, lat1, lon1, azi1, caps)
Construct(lat1, lon1, azi1, caps) ==
  /\ ~LineInit(line)
  /\ ~call.done
  /\ \E v \in {LineLocals(geod, lat1, lon1, azi1, caps)} :
       /\ ctor' = [done |-> TRUE, lat1 |-> lat1, lon1 |-> lon1,
                   azi1 |-> azi1, caps |-> caps, cbet1 |-> v.cbet1,
                   norm |-> <<v.norm1, v.norm2, v.norm3>>]
       /\ line' = LineMembers(geod, v)
  /\ UNCHANGED <<geod, call, ang, inv, xs, thr>>

\* line.Position(arcmode, a12, outmask, lat2, lon2, azi2, s12, m12, M12,
\* M21, S12)
Position(arcmode, a12, outmask) ==
  /\ ~call.done
  /\ call' = [done |-> TRUE, arcmode |-> arcmode, a12 |-> a12,
              outmask |-> outmask, pre |-> PreOut,
              res |-> PositionImpl(line, arcmode, a12, outmask, PreOut)]
  /\ UNCHANGED <<geod, ctor, line, ang, inv, xs, thr>>

\* the caller drops the results and declares fresh output arguments
Return ==
  /\ call.done
  /\ call' = NoCall
  /\ UNCHANGED <<geod, ctor, line, ang, inv, xs, thr>>

Init == InitIn(Ellipsoids)

Next ==
  \/ \E lat1 \in Lats, lon1 \in Lons, azi1 \in Azis, caps \in {ALL} :
       Construct(lat1, lon1, azi1, caps)
  \/ \E a12 \in Arcs, outmask \in {ALL} : Position(TRUE, a12, outmask)
  \/ \E a12 \in Dists, outmask \in {ALL} : Position(FALSE, a12, outmask)
  \/ Return

Spec == Init /\ [][Next]_vars

\* latitudes at the poles, next to them and next to the equator
CtorLats ==
  {I(-90), I(-89), I(-45), R(-100), I(0), R(100), I(30), I(89), I(90)}

\* azimuths of [-540, 540) on every multiple of 45 degrees and next to it
CtorAzis ==
  {x \in {R(450000 * k + d) : k \in -12..11, d \in {-100, 0, 100}} :
     FLe(I(-540), x)}

\* every line from the latitudes and azimuths above
NextCtor ==
  \E lat1 \in CtorLats, azi1 \in CtorAzis : Construct(lat1, I(0), azi1, ALL)

SpecCtor == Init /\ [][NextCtor]_vars

\* azimuths along a meridian, next to one on either side, and one across
MeridianAzis ==
  {I(0), R(-1), I(180), I(-180), R(1799999), R(-1799999), I(45)}

\* lines along the meridians, with the area asked for
NextMeridian ==
  \/ \E lat1 \in Lats, azi1 \in MeridianAzis :
       Construct(lat1, I(0), azi1, ALL)
  \/ \E a12 \in Arcs, outmask \in {ALL, AREA} : Position(TRUE, a12, outmask)
  \/ \E a12 \in Dists : Position(FALSE, a12, ALL)
  \/ Return

SpecMeridian == Init /\ [][NextMeridian]_vars

\* one ellipsoid and one starting point, every capability and output mask
InitCaps == InitIn({<<I(1), I(4)>>})

NextCaps ==
  \/ \E caps \in Masks : Construct(I(45), I(0), I(45), caps)
  \/ \E a12 \in {I(0), I(90)}, outmask \in Masks :
       Position(TRUE, a12, outmask)
  \/ \E a12 \in {I(0), I(1)}, outmask \in Masks :
       Position(FALSE, a12, outmask)
  \/ Return

SpecCaps == InitCaps /\ [][NextCaps]_vars

\* the number of 15-degree cells on each side of 0 that the angles cover
AngCells == 36

\* angles on every multiple of 15 degrees and next to it, and angles
\* outside the domain of AngNormalize
AngInputs ==
  {R(150000 * k + d) : k \in (-AngCells)..AngCells, d \in {-1, 0, 1}}
    \cup {FNeg(I(0)), I(900), I(-900)}

\* y = AngNormalize(x)
Normalize ==
  /\ ang.pc = "input"
  /\ ang' = [pc |-> "once", x |-> ang.x, y |-> AngNormalize(ang.x)]
  /\ UNCHANGED <<geod, ctor, line, call, inv, xs, thr>>

\* z = AngNormalize(y)
NormalizeAgain ==
  /\ ang.pc = "once"
  /\ ang' = [pc |-> "twice", x |-> ang.x, y |-> ang.y,
             z |-> AngNormalize(ang.y)]
  /\ UNCHANGED <<geod, ctor, line, call, inv, xs, thr>>

InitAngles ==
  /\ geod = Geodesic(I(1), I(0))
  /\ ctor = NoCtor
  /\ line = DefaultLine
  /\ call = NoCall
  /\ ang \in {[pc |-> "input", x |-> x] : x \in AngInputs}
  /\ inv = NoInv
  /\ xs = NoX
  /\ thr = NoThreads

NextAngles == Normalize \/ NormalizeAgain

SpecAngles == InitAngles /\ [][NextAngles]_vars

\* Geodesic::Inverse.  Its body is not part of the sources at hand; the
\* steps below follow the documentation of Inverse in Geodesic.hpp and the
\* description of the inverse solver: a Newton iteration on alp1 of at most
\* maxit steps, accepted when the update falls below a tolerance, and a
\* failure signalled by negated magnitudes and reversed azimuths.

\* the update below which the Newton iteration accepts
tol1 == R(100)

\* the starting guesses for alp1, in radians
Guesses == {I(0), R(7854), R(15708), R(23562), R(Pi)}

\* the Newton updates that Lambda12 can give, in radians
Updates == {R(0), R(50), R(7854), R(-7854)}

\* the integrals and the azimuth at point 2 that Lambda12 can give
Lambda12Out ==
  {[s12 |-> s, m12 |-> m, sig12 |-> sg, alp2 |-> a2] :
     s \in {I(0), R(15000)}, m \in {I(0), R(9000)},
     sg \in {I(0), R(15708)}, a2 \in {R(7854), R(23562)}}

\* alp1 bounded into [0, pi]
BoundAlp1(alp1) ==
  IF FLt(alp1, I(0)) THEN I(0)
  ELSE IF FLt(R(Pi), alp1) THEN R(Pi)
  ELSE alp1

\* the azimuth in degrees of the direction (salp, calp)
AziOf(salp, calp) == ToDeg(atan2(salp, calp))

\* Inverse starts the iteration from the guess of InverseStart
InverseStart(alp1) ==
  /\ inv.pc = "idle"
  /\ inv' = [pc |-> "newton", numit |-> 0, alp1 |-> alp1, conv |-> FALSE]
  /\ UNCHANGED <<geod, ctor, line, call, ang, xs, thr>>

\* one step of the iteration: accept when the update is small, else move
NewtonStep(dv) ==
  /\ inv.pc = "newton"
  /\ ~inv.conv
  /\ inv.numit < maxit
  /\ inv' = [inv EXCEPT !.numit = @ + 1,
                        !.alp1 = BoundAlp1(FSub(inv.alp1, dv)),
                        !.conv = FLt(FAbs(dv), tol1)]
  /\ UNCHANGED <<geod, ctor, line, call, ang, xs, thr>>

\* the iteration is over: the outputs are written, with the failure signal
\* when the iteration did not converge
InverseFinish(l) ==
  /\ inv.pc = "newton"
  /\ inv.conv \/ inv.numit >= maxit
  /\ LET fail == ~inv.conv
         salp1 == FSin(inv.alp1)
         calp1 == FCos(inv.alp1)
         salp2 == FSin(l.alp2)
         calp2 == FCos(l.alp2)
         a12 == ToDeg(l.sig12)
         comp == [s12 |-> l.s12, m12 |-> l.m12, a12 |-> a12,
                  azi1 |-> AziOf(salp1, calp1),
                  azi2 |-> AziOf(salp2, calp2)]
         res == IF fail
                THEN [s12 |-> FNeg(l.s12), m12 |-> FNeg(l.m12),
                      a12 |-> FNeg(a12),
                      azi1 |-> AziOf(FNeg(salp1), FNeg(calp1)),
                      azi2 |-> AziOf(FNeg(salp2), FNeg(calp2))]
                ELSE comp
     IN  inv' = [pc |-> "done", numit |-> inv.numit, conv |-> inv.conv,
                 comp |-> comp, res |-> res]
  /\ UNCHANGED <<geod, ctor, line, call, ang, xs, thr>>

InitInverse ==
  /\ geod = Geodesic(I(1), I(4))
  /\ ctor = NoCtor
  /\ line = DefaultLine
  /\ call = NoCall
  /\ ang = NoAng
  /\ inv = NoInv
  /\ xs = NoX
  /\ thr = NoThreads

NextInverse ==
  \/ \E alp1 \in Guesses : InverseStart(alp1)
  \/ \E dv \in Updates : NewtonStep(dv)
  \/ \E l \in Lambda12Out : InverseFinish(l)

SpecInverse == InitInverse /\ [][NextInverse]_vars

---------------------------------------------------------------------------
(* Intersect *)

\* the L1 distance
d1_M(x, y) == IF FLt(FAbs(x), FAbs(y)) THEN FAbs(y) ELSE FAbs(x)

d1(x, y) == FAdd(FAbs(x), FAbs(y))

\* XPoint(x, y, c)
XPoint(x, y, c) == [x |-> x, y |-> y, c |-> c]

\* SetComp(slop).eq(p, q)
SetCompEq_M(slop, p, q) == FEq(p.x, q.x) /\ FEq(p.y, q.y)

SetCompEq(slop, p, q) == FLe(d1(FSub(p.x, q.x), FSub(p.y, q.y)), slop)

\* SetComp(slop)(p, q)
SetComp_M(slop, p, q) ==
  IF ~FEq(p.x, q.x) THEN FLt(p.x, q.x) ELSE FLt(p.y, q.y)

SetComp(slop, p, q) ==
  /\ ~SetCompEq(slop, p, q)
  /\ IF ~FEq(p.x, q.x) THEN FLt(p.x, q.x) ELSE FLt(p.y, q.y)

\* the largest coordinate, in metres, of the points compared
GridMax == 1

Coords == {I(k) : k \in (-GridMax)..GridMax}

\* the values of _slop; a negative one is outside what the class sets
Slops == {I(-1), I(0), I(1), I(2)}

\* the names of the three points compared
Names == {"p", "q", "r"}

\* every pair of the three points is handed to the comparator
Compare ==
  /\ xs.pc = "points"
  /\ xs' = [pc |-> "compared", slop |-> xs.slop, c |-> xs.c,
            p |-> xs.p, q |-> xs.q, r |-> xs.r,
            eq |-> [a \in Names |->
                      [b \in Names |-> SetCompEq(xs.slop, xs[a], xs[b])]],
            lt |-> [a \in Names |->
                      [b \in Names |-> SetComp(xs.slop, xs[a], xs[b])]]]
  /\ UNCHANGED <<geod, ctor, line, call, ang, inv, thr>>

InitSetComp ==
  /\ geod = Geodesic(I(1), I(0))
  /\ ctor = NoCtor
  /\ line = DefaultLine
  /\ call = NoCall
  /\ ang = NoAng
  /\ inv = NoInv
  /\ thr = NoThreads
  /\ xs \in {[pc |-> "points", slop |-> slop, c |-> c,
              p |-> XPoint(px, py, c), q |-> XPoint(qx, qy, c),
              r |-> XPoint(rx, ry, c)] :
               slop \in Slops, c \in {-1, 0, 1}, px \in Coords, py \in Coords,
               qx \in Coords, qy \in Coords, rx \in Coords, ry \in Coords}

NextSetComp == Compare

SpecSetComp == InitSetComp /\ [][NextSetComp]_vars

\* XPoint::Dist(p0)
Dist_M(p, p0) == FAbs(FSub(p.x, p0.x))

Dist(p, p0) == d1(FSub(p.x, p0.x), FSub(p.y, p0.y))

\* RankPoint(p0)(p, q)
RankPoint_M(p0, p, q) ==
  IF ~FEq(p.x, q.x) THEN FLt(p.x, q.x) ELSE FLt(p.y, q.y)

\* the ranking by distance alone
RankPoint_D(p0, p, q) == FLt(Dist(p, p0), Dist(q, p0))

RankPoint(p0, p, q) ==
  IF ~FEq(Dist(p, p0), Dist(q, p0)) THEN FLt(Dist(p, p0), Dist(q, p0))
  ELSE IF ~FEq(p.x, q.x) THEN FLt(p.x, q.x)
  ELSE FLt(p.y, q.y)

\* the reference points of the rankings
Origins == {XPoint(I(0), I(0), 0), XPoint(I(1), I(0), 0),
            XPoint(I(GridMax), I(-GridMax), 0)}

\* every pair of the three points is handed to RankPoint(p0)
Rank ==
  /\ xs.pc = "unranked"
  /\ xs' = [pc |-> "ranked", p0 |-> xs.p0,
            p |-> xs.p, q |-> xs.q, r |-> xs.r,
            before |-> [a \in Names |->
                          [b \in Names |-> RankPoint(xs.p0, xs[a], xs[b])]]]
  /\ UNCHANGED <<geod, ctor, line, call, ang, inv, thr>>

InitRank ==
  /\ geod = Geodesic(I(1), I(0))
  /\ ctor = NoCtor
  /\ line = DefaultLine
  /\ call = NoCall
  /\ ang = NoAng
  /\ inv = NoInv
  /\ thr = NoThreads
  /\ xs \in {[pc |-> "unranked", p0 |-> p0,
              p |-> XPoint(px, py, 0), q |-> XPoint(qx, qy, 0),
              r |-> XPoint(rx, ry, 0)] :
               p0 \in Origins, px \in Coords, py \in Coords,
               qx \in Coords, qy \in Coords, rx \in Coords, ry \in Coords}

NextRank == Rank

SpecRank == InitRank /\ [][NextRank]_vars

\* The solvers Solve2 (Closest), Solve3 (Next) and Solve5 (All).  Their
\* bodies are not part of the sources at hand; the steps below follow the
\* description of the intersect engine: every tile gives Solve1 a starting
\* point, the intersection it finds is kept unless a kept one lies within
\* _slop of it (Next also drops the origin), All trims the kept ones to
\* maxdist and sorts them with RankPoint(p0), Closest and Next return the
\* one RankPoint ranks first.

\* the safety margin of the equality tests
_slop == I(1)

\* the number of tiles a solver visits
MaxTiles == 3

\* the intersections Solve1 can find
Intersections == {XPoint(x, y, 0) : x \in Coords, y \in Coords}

\* the fuzzy set r with the intersection q added
Kept(r, q) ==
  IF \E i \in 1..Len(r) : SetCompEq(_slop, r[i], q) THEN r ELSE Append(r, q)

\* a sorted vector with q put in its place
RECURSIVE Placed(_, _, _)
Placed(p0, v, q) ==
  IF v = <<>> THEN <<q>>
  ELSE IF RankPoint(p0, q, v[1]) THEN <<q>> \o v
  ELSE <<v[1]>> \o Placed(p0, Tail(v), q)

\* std::sort(v.begin(), v.end(), RankPoint(p0))
RECURSIVE Sorted(_, _)
Sorted(p0, v) ==
  IF v = <<>> THEN <<>>
  ELSE The({Placed(p0, w, v[1]) : w \in {Sorted(p0, Tail(v))}})

\* the intersections of r within maxdist of p0
Trimmed(p0, maxdist, r) ==
  SelectSeq(r, LAMBDA q : ~FLt(maxdist, Dist(q, p0)))

\* Closest(lineX, lineY, p0), Next(lineX, lineY) and
\* All(lineX, lineY, maxdist, p0) start their tiling
Solve(op, p0, maxdist) ==
  /\ xs.pc = "idle"
  /\ xs' = [pc |-> "tiling", op |-> op, p0 |-> p0, maxdist |-> maxdist,
            tiles |-> 0, r |-> <<>>]
  /\ UNCHANGED <<geod, ctor, line, call, ang, inv, thr>>

\* Solve1 refines the starting point of the next tile to the intersection q
Tile(q) ==
  /\ xs.pc = "tiling"
  /\ xs.tiles < MaxTiles
  /\ xs' = [xs EXCEPT
              !.tiles = @ + 1,
              !.r = IF xs.op = "Next" /\ SetCompEq(_slop, XPoint(I(0), I(0), 0), q)
                    THEN @
                    ELSE Kept(@, q)]
  /\ UNCHANGED <<geod, ctor, line, call, ang, inv, thr>>

\* all tiles are visited: All returns the trimmed and sorted vector,
\* Closest and Next the first of the sorted intersections
Solved ==
  /\ xs.pc = "tiling"
  /\ xs.tiles = MaxTiles
  /\ xs.op = "All" \/ xs.r # <<>>
  /\ xs' = [pc |-> "solved", op |-> xs.op, p0 |-> xs.p0,
            maxdist |-> xs.maxdist, r |-> xs.r,
            res |-> IF xs.op = "All"
                    THEN Sorted(xs.p0, Trimmed(xs.p0, xs.maxdist, xs.r))
                    ELSE <<Sorted(xs.p0, xs.r)[1]>>]
  /\ UNCHANGED <<geod, ctor, line, call, ang, inv, thr>>

InitSolve ==
  /\ geod = Geodesic(I(1), I(0))
  /\ ctor = NoCtor
  /\ line = DefaultLine
  /\ call = NoCall
  /\ ang = NoAng
  /\ inv = NoInv
  /\ xs = NoX
  /\ thr = NoThreads

NextSolve ==
  \/ \E p0 \in {XPoint(I(0), I(0), 0), XPoint(I(1), I(0), 0)} :
       Solve("Closest", p0, I(0))
  \/ Solve("Next", XPoint(I(0), I(0), 0), I(0))
  \/ \E p0 \in {XPoint(I(0), I(0), 0), XPoint(I(1), I(0), 0)},
        maxdist \in {I(1), I(2)} :
       Solve("All", p0, maxdist)
  \/ \E q \in Intersections : Tile(q)
  \/ Solved

SpecSolve == InitSolve /\ [][NextSolve]_vars

\* segmentmode(sx, sy, p)
segmentmode_M(sx, sy, p) ==
  (IF FLt(p.x, I(0)) THEN -1 ELSE IF FLt(p.x, sx) THEN 0 ELSE 1) * 3
    + (IF FLt(p.y, I(0)) THEN -1 ELSE IF FLt(p.y, sy) THEN 0 ELSE 1)

segmentmode(sx, sy, p) ==
  (IF FLt(p.x, I(0)) THEN -1 ELSE IF FLe(p.x, sx) THEN 0 ELSE 1) * 3
    + (IF FLt(p.y, I(0)) THEN -1 ELSE IF FLe(p.y, sy) THEN 0 ELSE 1)

\* the longest segment, in metres
MaxSeg == 2

\* the lengths of the segments X and Y
SegLengths == {I(k) : k \in 0..MaxSeg}

\* the displacements of an intersection along a segment: before it, at its
\* start (with either sign of zero), inside, at and past the end of the
\* longest one, and not a number
SegCoords == {I(k) : k \in (-1)..(MaxSeg + 1)} \cup {FNeg(I(0)), NaN}

\* Segment(lineX, lineY, segmode): Solve4 returns the intersection p of the
\* segments of lengths sx and sy, and segmode tells where p lies on them
Segment(sx, sy, p) ==
  /\ xs.pc = "idle"
  /\ xs' = [pc |-> "segment", sx |-> sx, sy |-> sy, p |-> p,
            segmode |-> segmentmode(sx, sy, p)]
  /\ UNCHANGED <<geod, ctor, line, call, ang, inv, thr>>

\* the caller drops the result
SegmentReturn ==
  /\ xs.pc = "segment"
  /\ xs' = NoX
  /\ UNCHANGED <<geod, ctor, line, call, ang, inv, thr>>

NextSegment ==
  \/ \E sx \in SegLengths, sy \in SegLengths, x \in SegCoords,
        y \in SegCoords :
       Segment(sx, sy, XPoint(x, y, 0))
  \/ SegmentReturn

SpecSegment == InitSolve /\ [][NextSegment]_vars

---------------------------------------------------------------------------
(* The construction of the ellipsoid.  The body of Geodesic::Geodesic is   *)
(* not part of the sources at hand; its argument check follows the         *)
(* description of the ellipsoid: construction fails if a <= 0 or           *)
(* |f| >= 1, and an exception leaves no object behind.                     *)

\* the constructor throws for the equatorial radius a and the flattening f
InvalidEllipsoid_M(a, f) == ~FLt(I(0), a)

InvalidEllipsoid(a, f) == ~FLt(I(0), a) \/ ~FLt(FAbs(f), I(1))

\* no Geodesic constructed yet
NoGeod == [st |-> "none"]

\* the equatorial radii tried
Radii == {I(-1), FNeg(I(0)), I(0), I(1), I(2)}

\* the reciprocal flattenings tried: a sphere, |f| above, at and below 1
Reciprocals ==
  {I(0)} \cup {[s |-> sg, m |-> m] :
                 sg \in {-1, 1},
                 m \in {5000, 9999, 10000, 15000, 20000, 40000, 3000000}}

\* Geodesic g(a, r)
NewGeodesic(a, r) ==
  /\ geod.st = "none"
  /\ geod' = IF InvalidEllipsoid(a, IF Val(r) # 0 THEN FDiv(I(1), r)
                                    ELSE I(0))
             THEN [st |-> "thrown", a |-> a, r |-> r]
             ELSE [st |-> "built", a |-> a, r |-> r, g |-> Geodesic(a, r)]
  /\ UNCHANGED <<ctor, line, call, ang, inv, xs, thr>>

\* g.Line(lat1, lon1, azi1), on the Geodesic that was constructed
NewLine(lat1, lon1, azi1) ==
  /\ geod.st = "built"
  /\ ~LineInit(line)
  /\ ctor' = [done |-> TRUE, lat1 |-> lat1, lon1 |-> lon1, azi1 |-> azi1,
              caps |-> ALL]
  /\ line' = GeodesicLine(geod.g, lat1, lon1, azi1, ALL)
  /\ UNCHANGED <<geod, call, ang, inv, xs, thr>>

InitEllipsoid ==
  /\ geod = NoGeod
  /\ ctor = NoCtor
  /\ line = DefaultLine
  /\ call = NoCall
  /\ ang = NoAng
  /\ inv = NoInv
  /\ xs = NoX
  /\ thr = NoThreads

NextEllipsoid ==
  \/ \E a \in Radii, r \in Reciprocals : NewGeodesic(a, r)
  \/ \E lat1 \in {I(0), I(45), I(-90)} : NewLine(lat1, I(0), I(45))

SpecEllipsoid == InitEllipsoid /\ [][NextEllipsoid]_vars

---------------------------------------------------------------------------
(* Geodesic::Direct and Geodesic::ArcDirect.  The overload of Direct with  *)
(* the arcmode argument is defined in Geodesic.hpp; the two functions it   *)
(* calls are defined elsewhere and follow the description of the direct    *)
(* solver: a line is built from the starting point and asked for the       *)
(* position at the distance or at the arc length.                          *)

\* Direct(lat1, lon1, azi1, s12, lat2, lon2, azi2, m12)
DirectM12(g, lat1, lon1, azi1, s12, pre) ==
  The({PositionImpl(L, FALSE, s12,
                    LATITUDE \cup LONGITUDE \cup AZIMUTH \cup REDUCEDLENGTH,
                    pre) :
         L \in {GeodesicLine(g, lat1, lon1, azi1,
                             LATITUDE \cup LONGITUDE \cup AZIMUTH
                               \cup REDUCEDLENGTH \cup DISTANCE_IN)}})

\* ArcDirect(lat1, lon1, azi1, a12, lat2, lon2, azi2, s12, m12)
ArcDirect(g, lat1, lon1, azi1, a12, pre) ==
  The({PositionImpl(L, TRUE, a12,
                    LATITUDE \cup LONGITUDE \cup AZIMUTH \cup DISTANCE
                      \cup REDUCEDLENGTH,
                    pre) :
         L \in {GeodesicLine(g, lat1, lon1, azi1,
                             LATITUDE \cup LONGITUDE \cup AZIMUTH
                               \cup DISTANCE \cup REDUCEDLENGTH)}})

\* the return value of Direct(..., arcmode) after the call r it delegates to
DirectReturn_M(arcmode, r) == r.ret

DirectReturn(arcmode, r) == IF arcmode THEN r.out.s12 ELSE r.ret

\* Direct(lat1, lon1, azi1, s12, lat2, lon2, azi2, m12, arcmode): the
\* return value and the output arguments; with arcmode the distance goes
\* to the local s12x, which is returned
Direct(g, lat1, lon1, azi1, s12, arcmode, pre) ==
  The({[ret |-> DirectReturn(arcmode, r),
        out |-> [lat2 |-> r.out.lat2, lon2 |-> r.out.lon2,
                 azi2 |-> r.out.azi2, m12 |-> r.out.m12]] :
         r \in {IF arcmode
                THEN ArcDirect(g, lat1, lon1, azi1, s12,
                               [pre EXCEPT !.s12 = Uninit])
                ELSE DirectM12(g, lat1, lon1, azi1, s12, pre)}})

\* geod.Direct(lat1, lon1, azi1, s12, lat2, lon2, azi2, m12, arcmode)
CallDirect(lat1, lon1, azi1, s12, arcmode) ==
  /\ ~call.done
  /\ call' = [done |-> TRUE, lat1 |-> lat1, lon1 |-> lon1, azi1 |-> azi1,
              s12 |-> s12, arcmode |-> arcmode,
              res |-> Direct(geod, lat1, lon1, azi1, s12, arcmode, PreOut)]
  /\ UNCHANGED <<geod, ctor, line, ang, inv, xs, thr>>

NextDirect ==
  \/ \E lat1 \in {I(-30), I(0), I(45), I(90)},
        azi1 \in {I(-180), I(0), I(45), I(90), I(135)},
        a12 \in {I(0), I(90), I(180), I(-45)} :
       CallDirect(lat1, I(0), azi1, a12, TRUE)
  \/ \E lat1 \in {I(-30), I(0), I(45), I(90)},
        azi1 \in {I(-180), I(0), I(45), I(90), I(135)},
        s12 \in {I(0), R(15708), R(31416), I(-1)} :
       CallDirect(lat1, I(0), azi1, s12, FALSE)
  \/ Return

SpecDirect == Init /\ [][NextDirect]_vars

---------------------------------------------------------------------------
(* Threads that call Position on one shared line.  A call reads the        *)
(* members of the line in two steps, up to sig12 and from there to the     *)
(* outputs, and other threads' steps may come between the two.             *)

\* the members of the line after a Position call with the locals v: the
\* method is const and assigns to no member
PositionLine_M(L, v) == [L EXCEPT !._ssig1 = v.ssig2, !._csig1 = v.csig2]

PositionLine(L, v) == L

\* thread t enters Position: the mask is reduced to the capabilities of
\* the line and, unless the call is refused, sig12 is found
PositionEnter(t, arcmode, a12, outmask) ==
  /\ thr[t].pc = "idle"
  /\ thr' = [thr EXCEPT ![t] =
       IF ~PositionAllowed(line, arcmode)
       THEN [pc |-> "done", arcmode |-> arcmode, a12 |-> a12,
             outmask |-> outmask, ret |-> NaN, out |-> PreOut,
             mid |-> FALSE]
       ELSE [pc |-> "sig12", arcmode |-> arcmode, a12 |-> a12,
             outmask |-> outmask,
             mask |-> EffectiveMask(line, outmask),
             v |-> PosSig12In(line, arcmode, a12)]]
  /\ UNCHANGED <<geod, ctor, line, call, ang, inv, xs>>

\* thread t computes the rest of the locals, assigns the outputs asked for
\* and returns; mid records whether another thread is inside Position then
PositionLeave(t) ==
  /\ thr[t].pc = "sig12"
  /\ LET c == thr[t]
         v == PosOutputs(line, c.arcmode, c.a12, c.mask, c.v)
         res == PosResult(c.arcmode, c.a12, c.mask, PreOut, v)
     IN  /\ thr' = [thr EXCEPT ![t] =
                      [pc |-> "done", arcmode |-> c.arcmode, a12 |-> c.a12,
                       outmask |-> c.outmask, ret |-> res.ret,
                       out |-> res.out,
                       mid |-> \E u \in Threads \ {t} :
                                 thr[u].pc = "sig12"]]
         /\ line' = PositionLine(line, v)
  /\ UNCHANGED <<geod, ctor, call, ang, inv, xs>>

\* thread t drops the results
PositionDrop(t) ==
  /\ thr[t].pc = "done"
  /\ thr' = [thr EXCEPT ![t] = [pc |-> "idle"]]
  /\ UNCHANGED <<geod, ctor, line, call, ang, inv, xs>>

\* the arguments the shared line is constructed with
SharedCtor ==
  {[done |-> TRUE, lat1 |-> I(45), lon1 |-> I(0), azi1 |-> I(45),
    caps |-> caps] : caps \in {ALL, LATITUDE \cup AZIMUTH}}
    \cup {[done |-> TRUE, lat1 |-> I(-30), lon1 |-> I(-180),
           azi1 |-> I(135), caps |-> ALL]}

InitShared ==
  /\ geod = Geodesic(I(1), I(4))
  /\ ctor \in SharedCtor
  /\ line = GeodesicLine(geod, ctor.lat1, ctor.lon1, ctor.azi1, ctor.caps)
  /\ call = NoCall
  /\ ang = NoAng
  /\ inv = NoInv
  /\ xs = NoX
  /\ thr = NoThreads

NextShared ==
  \/ \E t \in Threads, a12 \in {I(0), I(90)}, outmask \in {ALL, LONGITUDE} :
       PositionEnter(t, TRUE, a12, outmask)
  \/ \E t \in Threads, s12 \in {I(1), I(-1)}, outmask \in {ALL, LATITUDE} :
       PositionEnter(t, FALSE, s12, outmask)
  \/ \E t \in Threads : PositionLeave(t)
  \/ \E t \in Threads : PositionDrop(t)

SpecShared == InitShared /\ [][NextShared]_vars

---------------------------------------------------------------------------
(* AngRound in binary floating point *)

\* the number of significant binary digits of a real
Bits == 4

\* 1/16 in units of 2^-(Bits + 8)
RoundZ == [s |-> 1, m |-> 2^(Bits + 4)]

\* the reals of Bits significant digits up to 1/8, of either sign
Floats ==
  {f \in {[s |-> sg, m |-> k * 2^e] :
            sg \in {-1, 1}, k \in 0..(2^Bits - 1), e \in 0..6} :
     f.m <= 2 * RoundZ.m}

\* y = AngRound(x)
Round ==
  /\ ang.pc = "real"
  /\ ang' = [pc |-> "rounded", x |-> ang.x,
             y |-> AngRoundAt(Bits, RoundZ, ang.x)]
  /\ UNCHANGED <<geod, ctor, line, call, inv, xs, thr>>

\* yn = AngRound(-x)
RoundNegated ==
  /\ ang.pc = "rounded"
  /\ ang' = [pc |-> "both", x |-> ang.x, y |-> ang.y,
             yn |-> AngRoundAt(Bits, RoundZ, FNeg(ang.x))]
  /\ UNCHANGED <<geod, ctor, line, call, inv, xs, thr>>

InitRound ==
  /\ geod = Geodesic(I(1), I(0))
  /\ ctor = NoCtor
  /\ line = DefaultLine
  /\ call = NoCall
  /\ ang \in {[pc |-> "real", x |-> x] : x \in Floats}
  /\ inv = NoInv
  /\ xs = NoX
  /\ thr = NoThreads

NextRound == Round \/ RoundNegated

SpecRound == InitRound /\ [][NextRound]_vars

---------------------------------------------------------------------------
(* Properties *)

\* the last call returned a number
Returned == call.done /\ ~IsNaN(call.res.ret)

\* the line is on a sphere
OnSphere == Val(geod._f) = 0

\* x lies in [lo, hi) degrees
InRange(x, lo, hi) == FLe(I(lo), x) /\ FLt(x, I(hi))

\* C1 (as stated): Position returns the arc length sigma12 in degrees when
\* called with a distance, and the distance s12 in metres when called with
\* an arc length.
C1_ReturnsOtherQuantity ==
  Returned =>
    IF call.arcmode
    THEN ("s12" \in call.res.written => call.res.ret = call.res.out.s12)
    ELSE call.res.ret = ToDeg(call.res.sig12)

\* the largest difference, in units of 1/Scale of the equatorial radius,
\* allowed between a distance and the distance of its arc length
ArcTol == 30

\* the distance Position gives for the arc length a12 on line L
DistanceOfArc(L, a12) == PositionImpl(L, TRUE, a12, ALL, PreOut).out.s12

\* C1 (amended): Position returns the arc length in degrees in both modes.
\* Called with a distance it returns sigma12 converted to degrees, the arc
\* length of that distance (on a sphere the distance over the radius; on
\* any ellipsoid the arc whose distance is the argument again); called
\* with an arc length it returns the argument a12 itself, and the distance
\* is available only through the output argument s12.
C1_ReturnsArcLength ==
  Returned =>
    IF call.arcmode
    THEN call.res.ret = call.a12
    ELSE /\ call.res.ret = ToDeg(call.res.sig12)
         /\ OnSphere => call.res.ret = ToDeg(FDiv(call.a12, line._b))
         /\ LET d == Val(DistanceOfArc(line, call.res.ret)) - Val(call.a12)
            IN  d <= ArcTol /\ -d <= ArcTol

\* a call with an arc length has returned it and written another distance
C1_Witness ==
  /\ Returned
  /\ call.arcmode
  /\ "s12" \in call.res.written
  /\ Val(call.a12) > 0
  /\ call.res.ret = call.a12
  /\ call.res.out.s12 # call.a12

\* the names of the output arguments
Outputs == {"lat2", "lon2", "azi2", "s12", "m12", "M12", "M21", "S12"}

\* the bit of Geodesic::mask that selects an output argument
OutBit(o) ==
  CASE o = "lat2" -> 7
    [] o = "lon2" -> 8
    [] o = "azi2" -> 9
    [] o = "s12" -> 10
    [] o = "m12" -> 12
    [] o = "M12" -> 13
    [] o = "M21" -> 13
    [] o = "S12" -> 14

\* C2: Position called with a distance (arcmode = false) on a line whose
\* capabilities do not include DISTANCE_IN, or on an uninitialised line,
\* returns NaN and writes none of its output arguments.
C2_NaNWithoutDistanceIn ==
  (/\ call.done
   /\ ~call.arcmode
   /\ (~ctor.done \/ 11 \notin ctor.caps))
    => /\ IsNaN(call.res.ret)
       /\ call.res.written = {}
       /\ call.res.out = call.pre

\* a distance call on a constructed line without DISTANCE_IN that asked for
\* outputs the line is capable of
C2_Witness ==
  /\ call.done
  /\ ~call.arcmode
  /\ ctor.done
  /\ 11 \notin ctor.caps
  /\ 7 \in call.outmask
  /\ 10 \in call.outmask /\ 10 \in ctor.caps
  /\ IsNaN(call.res.ret)

\* C3: when Position does not return NaN, an output argument is written if
\* and only if its flag is in the requested outmask and in the line's
\* capabilities (the caps of the constructor, plus LATITUDE and AZIMUTH);
\* every other output argument keeps its value.
C3_WrittenIffRequestedAndCapable ==
  Returned =>
    \A o \in Outputs :
      /\ o \in call.res.written
           <=> /\ OutBit(o) \in call.outmask
               /\ OutBit(o) \in ctor.caps \cup {7, 9}
      /\ o \notin call.res.written => call.res.out[o] = call.pre[o]

\* a call that wrote latitude without the capability having been asked for,
\* and left a requested output alone that the line is not capable of
C3_Witness ==
  /\ Returned
  /\ 7 \notin ctor.caps
  /\ "lat2" \in call.res.written
  /\ 14 \in call.outmask
  /\ "S12" \notin call.res.written
  /\ call.res.out.S12 = call.pre.S12

\* the fields of each coefficient group
GroupC1(L) == {L._A1m1, L._B11, L._stau1, L._ctau1} \cup {L._C1a[i] : i \in 1..nC1}
GroupC1p(L) == {L._C1pa[i] : i \in 1..nC1p}
GroupC2(L) == {L._A2m1, L._B21} \cup {L._C2a[i] : i \in 1..nC2}
GroupC3(L) == {L._A3c, L._B31} \cup {L._C3a[i] : i \in 1..(nC3 - 1)}
GroupC4(L) == {L._A4, L._B41} \cup {L._C4a[i] : i \in 1..nC4}

\* the constructor has written every field of the group
Computed(group) == Uninit \notin group

\* the constructor has written no field of the group
Untouched(group) == group = {Uninit}

\* the group is computed if some bit of need is in caps, else untouched
ExactlyWhen(group, caps, need) ==
  IF caps \cap need # {} THEN Computed(group) ELSE Untouched(group)

\* C4: the constructor computes a coefficient group if and only if a flag
\* in caps requires it: C1 for DISTANCE, DISTANCE_IN, REDUCEDLENGTH,
\* GEODESICSCALE; C1p for DISTANCE_IN; C2 for REDUCEDLENGTH, GEODESICSCALE;
\* C3 for LONGITUDE; C4 for AREA; none for LATITUDE and AZIMUTH.
C4_GroupsExactlyAsRequired ==
  ctor.done =>
    /\ ExactlyWhen(GroupC1(line), ctor.caps, {10, 11, 12, 13})
    /\ ExactlyWhen(GroupC1p(line), ctor.caps, {11})
    /\ ExactlyWhen(GroupC2(line), ctor.caps, {12, 13})
    /\ ExactlyWhen(GroupC3(line), ctor.caps, {8})
    /\ ExactlyWhen(GroupC4(line), ctor.caps, {14})

\* a line built for DISTANCE_IN and AZIMUTH alone: C1 and C1p, nothing else
C4_Witness ==
  /\ ctor.done
  /\ ctor.caps \cap OUT_ALL = {9, 11}
  /\ Computed(GroupC1(line)) /\ Computed(GroupC1p(line))
  /\ Untouched(GroupC2(line))
  /\ Untouched(GroupC3(line))
  /\ Untouched(GroupC4(line))

\* the constructor's lon1 is in the domain of AngNormalize
LonInDomain == ctor.done /\ InRange(ctor.lon1, -540, 540)

\* the last call wrote lon2
WroteLon == Returned /\ "lon2" \in call.res.written

\* C5 (as stated): for lon1 in [-540, 540) the lon2 written by Position is
\* in [-180, 180): the longitude difference is first reduced to [-180, 180),
\* so its sum with the stored longitude is in [-540, 540).
C5_LonReducedExactly ==
  (LonInDomain /\ WroteLon) =>
    /\ InRange(call.res.out.lon2, -180, 180)
    /\ InRange(call.res.lon12, -180, 180)
    /\ InRange(call.res.lonsum, -540, 540)

\* C5 (amended): for lon1 in [-540, 540) the lon2 written by Position is in
\* [-180, 180): the reduction leaves the longitude difference below 180 and
\* no more than one rounding step of lon12/360 below -180 (a difference
\* just under 180 makes lon12/360 + 0.5 round up to a whole number), so its
\* sum with the stored longitude is still in [-540, 540).
C5_LonInRange ==
  (LonInDomain /\ WroteLon) =>
    /\ InRange(call.res.out.lon2, -180, 180)
    /\ Val(call.res.lon12) < 180 * Scale
    /\ Val(call.res.lon12) >= -180 * Scale - 360
    /\ InRange(call.res.lonsum, -540, 540)

\* a displacement of more than one revolution whose longitude has wrapped:
\* along the equator of an ellipsoid the longitude runs behind the arc
C5_Witness ==
  /\ LonInDomain /\ WroteLon
  /\ ~OnSphere
  /\ Val(ctor.lat1) = 0 /\ Val(ctor.azi1) = 90 * Scale
  /\ call.arcmode /\ Val(call.a12) > 720 * Scale
  /\ Val(call.res.out.lon2) # Val(AngNormalize(ctor.lon1))

\* C6: the azi2 written by Position lies in [-180, 180); +180 is never
\* produced.
C6_AziInRange ==
  (Returned /\ "azi2" \in call.res.written) =>
    InRange(call.res.out.azi2, -180, 180)

\* x is in the domain of AngNormalize
AngInDomain(x) == InRange(x, -540, 540)

\* C10: for every x in [-540, 540), AngNormalize(x) is in [-180, 180) and
\* differs from x by exactly 0, +360 or -360; AngNormalize is the identity
\* on [-180, 180), and so applying it a second time changes nothing.
C10_AngNormalize ==
  (ang.pc \in {"once", "twice"} /\ AngInDomain(ang.x)) =>
    /\ InRange(ang.y, -180, 180)
    /\ Val(ang.y) - Val(ang.x) \in {0, 360 * Scale, -360 * Scale}
    /\ InRange(ang.x, -180, 180) => ang.y = ang.x
    /\ ang.pc = "twice" => ang.z = ang.y

\* the largest angle of the domain has been normalised twice
C10_Witness ==
  /\ ang.pc = "twice"
  /\ Val(ang.x) = 540 * Scale - 1
  /\ Val(ang.y) = 180 * Scale - 1
  /\ ang.z = ang.y

\* s is the sign of a negated magnitude
Negative(x) == x.s = -1

\* the azimuths a and b, in degrees, point in opposite directions
Opposite(a, b) ==
  LET d == Val(a) - Val(b)
  IN  d = 180 * Scale \/ d = -180 * Scale

\* C8: if the Newton iteration of Inverse has not converged after 50 steps
\* Inverse stops and signals it: s12, m12 and a12 are returned as the
\* negatives of the computed magnitudes and the azimuths are reversed.
\* Inverse never iterates further, and a result that did not converge is
\* never returned with the normal signs.
C8_FailureSignalled ==
  /\ inv.pc \in {"idle", "newton", "done"}
  /\ inv.pc # "idle" => inv.numit <= 50
  /\ (inv.pc = "newton" /\ ~inv.conv /\ inv.numit = 50) =>
       \A dv \in Updates : ~ENABLED NewtonStep(dv)
  /\ (inv.pc = "done" /\ ~inv.conv) =>
       /\ inv.numit = 50
       /\ inv.res.s12 = FNeg(inv.comp.s12) /\ Negative(inv.res.s12)
       /\ inv.res.m12 = FNeg(inv.comp.m12) /\ Negative(inv.res.m12)
       /\ inv.res.a12 = FNeg(inv.comp.a12) /\ Negative(inv.res.a12)
       /\ Opposite(inv.res.azi1, inv.comp.azi1)
       /\ Opposite(inv.res.azi2, inv.comp.azi2)
  /\ (inv.pc = "done" /\ inv.conv) =>
       /\ inv.res = inv.comp
       /\ ~Negative(inv.res.s12)
       /\ ~Negative(inv.res.m12)
       /\ ~Negative(inv.res.a12)

\* Inverse has returned after 50 steps without convergence
C8_Witness ==
  /\ inv.pc = "done"
  /\ ~inv.conv
  /\ inv.numit = 50
  /\ Val(inv.comp.s12) > 0
  /\ Val(inv.res.s12) < 0
  /\ Val(inv.res.a12) < 0


\* the magnitude of an integer
AbsInt(n) == IF n < 0 THEN -n ELSE n

\* the L1 separation of two points, in grid units
L1(p, q) == AbsInt(Val(p.x) - Val(q.x)) + AbsInt(Val(p.y) - Val(q.y))

Compared == xs.pc = "compared"

\* neither point is ordered before the other
Equivalent(a, b) == ~xs.lt[a][b] /\ ~xs.lt[b][a]

\* C11: with slop >= 0 two points are equivalent for set insertion exactly
\* when their L1 separation is at most slop; operator() is irreflexive and
\* never orders both p before q and q before p
C11_EquivalentIffWithinSlop ==
  (Compared /\ Val(xs.slop) >= 0) =>
    \A a \in Names, b \in Names :
      /\ Equivalent(a, b) <=> (L1(xs[a], xs[b]) <= Val(xs.slop))
      /\ ~xs.lt[a][a]
      /\ ~(xs.lt[a][b] /\ xs.lt[b][a])

\* two different points within slop that are equivalent, and a third one
\* further away that is ordered after the first
C11_Witness ==
  /\ Compared
  /\ Val(xs.slop) > 0
  /\ L1(xs.p, xs.q) > 0
  /\ Equivalent("p", "q")
  /\ L1(xs.p, xs.r) > Val(xs.slop)
  /\ xs.lt["p"]["r"]

\* the point p moved by dx along X and dy along Y
Moved(p, dx, dy) == XPoint(FAdd(p.x, dx), FAdd(p.y, dy), p.c)

\* neither of two points is ordered before the other by SetComp(slop)
Tied(slop, p, q) == ~SetComp(slop, p, q) /\ ~SetComp(slop, q, p)

\* C12: for a positive slop the comparator is not a strict weak ordering:
\* from any point p, the points one and two slops further along X make a
\* chain whose neighbours are equal while its ends are not, and the point
\* three slops along Y lies between p and the point one slop along X
\* although those two are not ordered
C12_NotStrictWeakOrdering ==
  (Compared /\ Val(xs.slop) > 0) =>
    /\ Tied(xs.slop, xs.p, Moved(xs.p, xs.slop, I(0)))
    /\ Tied(xs.slop, Moved(xs.p, xs.slop, I(0)),
            Moved(xs.p, FMulInt(2, xs.slop), I(0)))
    /\ ~Tied(xs.slop, xs.p, Moved(xs.p, FMulInt(2, xs.slop), I(0)))
    /\ SetComp(xs.slop, xs.p, Moved(xs.p, I(0), FMulInt(3, xs.slop)))
    /\ SetComp(xs.slop, Moved(xs.p, I(0), FMulInt(3, xs.slop)),
               Moved(xs.p, xs.slop, I(0)))
    /\ ~SetComp(xs.slop, xs.p, Moved(xs.p, xs.slop, I(0)))

\* three points compared of which p equals q and q equals r but p does not
\* equal r
C12_Witness ==
  /\ Compared
  /\ Val(xs.slop) > 0
  /\ Equivalent("p", "q")
  /\ Equivalent("q", "r")
  /\ ~Equivalent("p", "r")

\* p and q carry the coincidence indicator c # 0 and lie on one line
\* y = c * x + const
SameCoincidenceLine ==
  /\ xs.c # 0
  /\ Val(xs.q.y) - Val(xs.p.y) = xs.c * (Val(xs.q.x) - Val(xs.p.x))

\* C13 as stated: two candidates on the same coincidence line are equal
\* for set insertion, whatever their separation along the line
C13_SameLineEqual ==
  (Compared /\ Val(xs.slop) >= 0 /\ SameCoincidenceLine) =>
    Equivalent("p", "q")

\* C13 as amended: two candidates on the same coincidence line are equal
\* for set insertion exactly when they are at most slop / 2 apart along
\* each geodesic
C13_SameLineEqualWithinSlop ==
  (Compared /\ Val(xs.slop) >= 0 /\ SameCoincidenceLine) =>
    (Equivalent("p", "q")
       <=> 2 * AbsInt(Val(xs.q.x) - Val(xs.p.x)) <= Val(xs.slop))

\* two candidates on one coincidence line, one of them ordered before the
\* other
C13_Witness ==
  /\ Compared
  /\ Val(xs.slop) > 0
  /\ SameCoincidenceLine
  /\ xs.lt["p"]["q"]



SolvedBy(op) == xs.pc = "solved" /\ xs.op = op

\* the elements of a vector
Elements(v) == {v[i] : i \in 1..Len(v)}

\* C14: of a non-empty set of candidate intersections the one RankPoint(p0)
\* ranks first, which Closest returns, has the least L1 distance from p0
C14_ClosestIsL1Minimal ==
  SolvedBy("Closest") =>
    /\ xs.res[1] \in Elements(xs.r)
    /\ \A q \in Elements(xs.r) :
         /\ L1(xs.res[1], xs.p0) <= L1(q, xs.p0)
         /\ q # xs.res[1] => RankPoint(xs.p0, xs.res[1], q)

\* Closest chose among three candidates at different distances from an
\* offset p0, the nearest of which was not found first
C14_Witness ==
  /\ SolvedBy("Closest")
  /\ Val(xs.p0.x) # 0
  /\ Len(xs.r) = 3
  /\ L1(xs.r[1], xs.p0) > L1(xs.r[2], xs.p0)
  /\ L1(xs.r[2], xs.p0) > L1(xs.r[3], xs.p0)
  /\ xs.res[1] = xs.r[3]



C16_NextExcludesOrigin ==
  SolvedBy("Next") =>
    /\ L1(xs.res[1], XPoint(I(0), I(0), 0)) > Val(_slop)
    /\ \A q \in Elements(xs.r) :
         L1(xs.res[1], XPoint(I(0), I(0), 0)) <= L1(q, XPoint(I(0), I(0), 0))

\* Next met the starting intersection on a tile and returned another one
C16_Witness ==
  /\ SolvedBy("Next")
  /\ Len(xs.r) = 2
  /\ xs.res[1] = xs.r[2]



\* where the displacement x lies on a segment of length sx: -1 before it,
\* 0 inside it or at an end point, +1 past it
Side(x, sx) ==
  IF Val(x) < 0 THEN -1 ELSE IF Val(x) <= Val(sx) THEN 0 ELSE 1

\* C17: segmentmode returns 3 * kx + ky with kx and ky in {-1, 0, +1}
\* telling on which side of [0, sx] and of [0, sy] the point lies; the code
\* is in [-4, 4], comes from one pair (kx, ky) only, and is 0 exactly when
\* the point lies inside both segments, end points included
C17_SegmentMode ==
  xs.pc = "segment" =>
    /\ xs.segmode \in (-4)..4
    /\ Cardinality({k \in {-1, 0, 1} \X {-1, 0, 1} :
                      xs.segmode = 3 * k[1] + k[2]}) = 1
    /\ \E kx \in {-1, 0, 1}, ky \in {-1, 0, 1} :
         /\ xs.segmode = 3 * kx + ky
         /\ ~IsNaN(xs.p.x) => kx = Side(xs.p.x, xs.sx)
         /\ ~IsNaN(xs.p.y) => ky = Side(xs.p.y, xs.sy)
    /\ xs.segmode = 0 <=>
         /\ ~IsNaN(xs.p.x) /\ 0 <= Val(xs.p.x) /\ Val(xs.p.x) <= Val(xs.sx)
         /\ ~IsNaN(xs.p.y) /\ 0 <= Val(xs.p.y) /\ Val(xs.p.y) <= Val(xs.sy)

\* an intersection at the far end point of segment X and before the start
\* of segment Y
C17_Witness ==
  /\ xs.pc = "segment"
  /\ Val(xs.sx) > 0
  /\ xs.p.x = xs.sx
  /\ FLt(xs.p.y, I(0))
  /\ xs.segmode = -1



\* the return value and the outputs of the same call run alone on the line
\* as constructed
Alone(c) ==
  PositionImpl(GeodesicLine(geod, ctor.lat1, ctor.lon1, ctor.azi1,
                            ctor.caps),
               c.arcmode, c.a12, c.outmask, PreOut)

\* C18: no Position call changes a stored field of the line, and whatever
\* the interleaving of the calls on the shared line each call returns the
\* value and the outputs of the same call run alone
C18_SharedLineUnchanged ==
  /\ line = GeodesicLine(geod, ctor.lat1, ctor.lon1, ctor.azi1, ctor.caps)
  /\ \A t \in Threads :
       thr[t].pc = "done" =>
         /\ thr[t].ret = Alone(thr[t]).ret
         /\ thr[t].out = Alone(thr[t]).out

\* a distance call and an arc call have both returned their outputs, the
\* distance call while the other thread was between the two steps of its
\* arc call
C18_Witness ==
  /\ thr[1].pc = "done"
  /\ ~thr[1].arcmode
  /\ ~IsNaN(thr[1].ret)
  /\ thr[1].mid
  /\ thr[2].pc = "done"
  /\ thr[2].arcmode
  /\ thr[2].out.lat2 # PreOut.lat2



\* Position with every capability and every output, on the line through
\* the starting point of the Direct call
FullPosition ==
  PositionImpl(GeodesicLine(geod, call.lat1, call.lon1, call.azi1, ALL),
               call.arcmode, call.s12, ALL, PreOut)

\* C19: Direct with the arcmode argument returns the other quantity: given
\* a distance it returns the arc length of the line at that distance (whose
\* distance is the argument again), given an arc length it returns the
\* distance s12 of that arc; lat2, lon2, azi2 and m12 are those of the
\* position on the line
C19_DirectReturnsOther ==
  call.done =>
    /\ IF call.arcmode
       THEN call.res.ret = FullPosition.out.s12
       ELSE /\ call.res.ret = ToDeg(FullPosition.sig12)
            /\ LET d == Val(DistanceOfArc(GeodesicLine(geod, call.lat1,
                                                       call.lon1, call.azi1,
                                                       ALL),
                                          call.res.ret))
                          - Val(call.s12)
               IN  d <= ArcTol /\ -d <= ArcTol
    /\ call.res.out.lat2 = FullPosition.out.lat2
    /\ call.res.out.lon2 = FullPosition.out.lon2
    /\ call.res.out.azi2 = FullPosition.out.azi2
    /\ call.res.out.m12 = FullPosition.out.m12

\* Direct was given an arc length of 90 degrees on an ellipsoid and returned
\* a distance, not the arc length
C19_Witness ==
  /\ call.done
  /\ call.arcmode
  /\ call.s12 = I(90)
  /\ ~OnSphere
  /\ call.res.ret # call.s12
  /\ Val(call.res.ret) > 0
  /\ call.res.out.lat2 # PreOut.lat2



\* the flattening of the reciprocal flattening r
FlatteningOf(r) == IF Val(r) # 0 THEN FDiv(I(1), r) ELSE I(0)

RoundGap == RoundZ.m \div 2^Bits

\* C21: AngRound(-x) = -AngRound(x) and AngRound(0) = 0; x comes back
\* unchanged when |x| >= 1/16; for |x| < 1/16 the result has the sign of x
\* and a magnitude in [0, 1/16] that is the multiple of the gap just below
\* 1/16 nearest to |x|
C21_AngRoundSnaps ==
  ang.pc = "both" =>
    /\ FEq(ang.yn, FNeg(ang.y))
    /\ ang.x.m = 0 => ang.y.m = 0
    /\ ang.x.s * Val(ang.y) >= 0
    /\ ang.x.m >= RoundZ.m => ang.y = ang.x
    /\ ang.x.m < RoundZ.m =>
         /\ ang.y.m <= RoundZ.m
         /\ ang.y.m % RoundGap = 0
         /\ 2 * AbsInt(ang.y.m - ang.x.m) <= RoundGap

\* a negative x below 1/16 that is not on the gap and is moved onto it
C21_Witness ==
  /\ ang.pc = "both"
  /\ ang.x.s = -1
  /\ ang.x.m % RoundGap # 0
  /\ ang.y.m # ang.x.m
  /\ ang.y.m > 0


\* C22 as stated: the normalised cos(bet1) of the constructor is at least
\* eps2 on every ellipsoid
C22_Cbet1AtLeastEps2 == ctor.done => FLe(eps2, ctor.cbet1)

\* C22: the normalised cos(bet1) of the constructor is positive, and at
\* least eps2 when the ellipsoid is not prolate (1 - f <= 1)
C22_Cbet1Positive ==
  ctor.done =>
    /\ FLt(I(0), ctor.cbet1)
    /\ FLe(geod._f1, I(1)) => FLe(eps2, ctor.cbet1)

\* a line from the south pole of a prolate ellipsoid: cos(bet1) is positive
\* and below eps2
C22_Witness ==
  /\ ctor.done
  /\ FEq(ctor.lat1, I(-90))
  /\ FLt(I(1), geod._f1)
  /\ FLt(I(0), ctor.cbet1)
  /\ FLt(ctor.cbet1, eps2)


\* C23: when the area is computed and alp2 - alp1 is half a turn (salp12
\* is a zero of either sign and calp12 < 0), the angle of S12 is
\* atan2(eps2 * calp1, -1): pi, to within eps2, with the sign of cos(alp1),
\* whatever the sign of the zero; S12 is c2 times that angle when A4 is 0
C23_HalfTurnSign ==
  (Returned /\ "S12" \in call.res.written /\ call.res.halfturn) =>
    /\ call.res.alp12 = atan2(FMul(eps2, line._calp1), I(-1))
    /\ ~FEq(line._calp1, I(0))
    /\ call.res.alp12.s = line._calp1.s
    /\ call.res.alp12.m <= Pi
    /\ Pi - call.res.alp12.m <= eps2.m
    /\ FEq(line._A4, I(0)) =>
         call.res.out.S12 = FMul(line._c2, call.res.alp12)

\* a half turn whose zero is negative on a line that starts northwards:
\* the angle is positive
C23_Witness ==
  /\ Returned
  /\ "S12" \in call.res.written
  /\ call.res.halfturn
  /\ call.res.zero12 = FNeg(I(0))
  /\ FLt(I(0), line._calp1)
  /\ call.res.alp12.s = 1
  /\ FLt(I(0), call.res.out.S12)

\* the members that are arrays
ArrayFields == {"_C1a", "_C1pa", "_C2a", "_C3a", "_C4a"}

\* the reals held by the member f of the line L
FieldCells(L, f) ==
  IF f \in ArrayFields THEN {L[f][i] : i \in DOMAIN L[f]} ELSE {L[f]}

\* C25: on a line whose caps is a union of public flags, a call of Position
\* that does not return NaN reads no coefficient array, amplitude or
\* remainder of point 1 that the constructor has left uninitialised
C25_ReadsOnlyComputed ==
  Returned => \A f \in call.res.reads : Uninit \notin FieldCells(line, f)

\* a call with a distance that asks for every output on a line built for
\* DISTANCE_IN and AREA: C1p and C4 are read, C3 is uninitialised
C25_Witness ==
  /\ Returned
  /\ ~call.arcmode
  /\ ctor.caps = DISTANCE_IN \cup AREA
  /\ call.outmask = ALL
  /\ {"_C1pa", "_C4a"} \subseteq call.res.reads
  /\ Untouched(GroupC3(line))
  /\ Untouched(GroupC2(line))

\* C27: the pair (salp2, calp2) handed to atan2 for azi2 and the pair
\* (sbet2, _f1 * cbet2) handed to atan2 for lat2 are never both zero; when
\* the degeneracy guard has acted (salp0 = 0 and csig2 = 0) cbet2 is eps2
\* and calp2 is not zero
C27_AtanArgumentsNotBothZero ==
  Returned =>
    /\ "azi2" \in call.res.written =>
         ~(FEq(call.res.salp2, I(0)) /\ FEq(call.res.calp2, I(0)))
    /\ "lat2" \in call.res.written =>
         ~(/\ FEq(call.res.sbet2, I(0))
           /\ FEq(FMul(line._f1, call.res.cbet2), I(0)))
    /\ call.res.degenerate =>
         /\ FEq(line._salp0, I(0))
         /\ call.res.cbet2 = eps2
         /\ FLt(I(0), call.res.cbet2)
         /\ ~FEq(call.res.calp2, I(0))

\* a line along a meridian that ends exactly at a pole
C27_Witness ==
  /\ Returned
  /\ call.res.degenerate
  /\ {"lat2", "azi2"} \subseteq call.res.written
  /\ FEq(line._salp0, I(0))
  /\ FEq(FAbs(call.res.sbet2), I(1))


\* the input azimuth is d degrees plus a multiple of n degrees
Congruent(d, n) == (Val(ctor.azi1) - d * Scale) % (n * Scale) = 0

\* C24: for an input azimuth in [-540, 540) the constructor stores
\* sin(alp1) = +0 when the normalised azimuth is -180, which it is for the
\* inputs congruent to 180 mod 360, and cos(alp1) = +0 when it is +90 or
\* -90; for every other azimuth it stores the library sine and cosine
C24_ExactZeros ==
  ctor.done =>
    /\ Congruent(180, 360) <=> FEq(line._azi1, I(-180))
    /\ Congruent(90, 180) <=> FEq(FAbs(line._azi1), I(90))
    /\ line._salp1 = IF Congruent(180, 360) THEN I(0)
                     ELSE FSin(ToRad(line._azi1))
    /\ line._calp1 = IF Congruent(90, 180) THEN I(0)
                     ELSE FCos(ToRad(line._azi1))

\* a line of azimuth +180: normalised to -180, sin(alp1) is +0 and
\* cos(alp1) is -1
C24_Witness ==
  /\ ctor.done
  /\ ctor.azi1 = I(180)
  /\ line._azi1 = I(-180)
  /\ line._salp1 = I(0)
  /\ line._calp1 = I(-1)

\* C26: each pair the constructor hands to SinCosNorm, (sbet1, cbet1),
\* (ssig1, csig1) and (somg1, comg1), has a component that is not zero,
\* and the normalised pairs are numbers
C26_NormalisedPairsNotZero ==
  ctor.done =>
    /\ \A i \in 1..3 :
         ~(FEq(ctor.norm[i][1], I(0)) /\ FEq(ctor.norm[i][2], I(0)))
    /\ \A x \in {ctor.cbet1, line._ssig1, line._csig1, line._somg1,
                 line._comg1} : ~IsNaN(x)

\* a line heading east on the equator: sbet1 = 0 and calp1 = 0, and the
\* pairs of sig1 and omg1 are (0, 1)
C26_Witness ==
  /\ ctor.done
  /\ FEq(ctor.lat1, I(0))
  /\ FEq(FAbs(line._azi1), I(90))
  /\ ctor.norm[2] = <<I(0), I(1)>>
  /\ FEq(ctor.norm[3][1], I(0)) /\ ctor.norm[3][2] = I(1)


\* the points a and b have the same coordinates
SamePlace(a, b) == FEq(xs[a].x, xs[b].x) /\ FEq(xs[a].y, xs[b].y)

\* C28: RankPoint(p0) is a strict total order on the points: no point is
\* ranked before itself, the ranking is transitive, of two points with
\* different (x, y) exactly one is ranked before the other, and points at
\* the same L1 distance from p0 are ranked by x and then by y
C28_StrictTotalOrder ==
  xs.pc = "ranked" =>
    /\ \A a \in Names : ~xs.before[a][a]
    /\ \A a \in Names, b \in Names, c \in Names :
         xs.before[a][b] /\ xs.before[b][c] => xs.before[a][c]
    /\ \A a \in Names, b \in Names :
         /\ ~(xs.before[a][b] /\ xs.before[b][a])
         /\ ~SamePlace(a, b) => xs.before[a][b] \/ xs.before[b][a]
         /\ L1(xs[a], xs.p0) = L1(xs[b], xs.p0) =>
              (xs.before[a][b] <=>
                 \/ FLt(xs[a].x, xs[b].x)
                 \/ FEq(xs[a].x, xs[b].x) /\ FLt(xs[a].y, xs[b].y))

\* three points at the same distance from a p0 that is not the origin, two
\* of them with the same x: ranked p, q, r
C28_Witness ==
  /\ xs.pc = "ranked"
  /\ xs.p0 # XPoint(I(0), I(0), 0)
  /\ L1(xs.p, xs.p0) = L1(xs.q, xs.p0)
  /\ L1(xs.q, xs.p0) = L1(xs.r, xs.p0)
  /\ FEq(xs.q.x, xs.r.x)
  /\ xs.before.p.q /\ xs.before.q.r /\ xs.before.p.r

=============================================================================
